---- MODULE Spec2Model ----
(***************************************************************************)
(* SpaceBridge: a polled 3-D input device bridged to virtual evdev        *)
(* devices.  The model covers the single-slot mailbox between the         *)
(* acquisition thread and the dispatch loop (SharedSpaceControlData), the *)
(* acquisition loop (SpaceControlDataAcquirer.run), and the update pass   *)
(* of the two virtual controllers (BaseVirtualController,                 *)
(* Virtual3DMouseController, VirtualGamepadController).                   *)
(***************************************************************************)
EXTENDS Integers, Sequences, FiniteSets, TLC

(***************************************************************************)
(* Python's None / a present value, for optional fields.                  *)
(***************************************************************************)
None == << >>

Some(v) == << v >>

(***************************************************************************)
(* Program constants and tables.                                          *)
(***************************************************************************)
AXIS_SCALE == 20

HIGH_LEVEL_EVENT_THRESHOLD == 131072

\* The evdev codes the tables are built from (linux/input-event-codes.h,
\* reached through `from evdev import ecodes`).
ecodes ==
    [ EV_KEY |-> 1, EV_ABS |-> 3,
      ABS_X |-> 0, ABS_Y |-> 1, ABS_Z |-> 2, ABS_RX |-> 3, ABS_RY |-> 4, ABS_RZ |-> 5,
      BTN_MISC |-> 256, BTN_LEFT |-> 272, BTN_RIGHT |-> 273, BTN_SIDE |-> 275,
      BTN_EXTRA |-> 276, BTN_FORWARD |-> 277, BTN_GEAR_UP |-> 337,
      BTN_TL2 |-> 312, BTN_TR2 |-> 313, BTN_TRIGGER_HAPPY1 |-> 704,
      EV_SYN |-> 0, SYN_REPORT |-> 0 ]

EVENT_ID_TO_NAME ==
    (-1 :> "NOTHING_CHANGED") @@
    (0 :> "SC_OK") @@ (1 :> "SC_COMMUNICATION_ERROR") @@ (2 :> "SC_WRONG_DEVICE_INDEX") @@
    (3 :> "SC_PARAMETER_OUT_OF_0RANGE") @@ (4 :> "SC_FILE_IO_ERROR") @@
    (5 :> "SC_KEYSTROKE_ERROR") @@ (6 :> "SC_APPL_NOT_FOUND") @@ (7 :> "SC_REGISTRY_ERROR") @@
    (8 :> "SC_NOT_SUPPORTED") @@ (9 :> "SC_EXEC_CMD_ERROR") @@ (10 :> "SC_THREAD_ERROR") @@
    (11 :> "SC_WRONG_USER") @@
    (131104 :> "APPL_FUNC_START") @@
    (131072 :> "DEV_BASIC_SETTINGS_REQ") @@ (131073 :> "DEV_ADVANCED_SETTINGS_REQ") @@
    (131074 :> "DEV_DEV_PARS_CHANGED") @@ (131075 :> "DEV_UNKNOWN_COMMAND_BYTE") @@
    (131076 :> "DEV_PARAM_OUT_OF_RANGE") @@ (131077 :> "DEV_PARSE_ERROR") @@
    (131078 :> "DEV_INTERNAL_DEVICE_ERROR") @@ (131079 :> "DEV_WRONG_TRANSCEIVER_ID") @@
    (131080 :> "DEV_BUFFER_OVERFLOW") @@ (131081 :> "DEV_FRONT") @@ (131082 :> "DEV_RIGHT") @@
    (131083 :> "DEV_TOP") @@ (131084 :> "DEV_FIT") @@ (131085 :> "DEV_WHEEL_LEFT") @@
    (131086 :> "DEV_WHEEL_RIGHT") @@ (131087 :> "EVT_HNDL_SENS_DLG") @@
    (131088 :> "EVT_HNDL_THRESH_DLG") @@ (131089 :> "EVT_HNDL_LCD_DLG") @@
    (131090 :> "EVT_HNDL_LEDS_DLG") @@ (131091 :> "EVT_APPL_IN_FRGRND") @@
    (131092 :> "EVT_HNDL_KBD_DLG") @@ (131093 :> "EVT_HNDL_WFL_DLG") @@
    (131094 :> "DEV_BACK") @@ (131095 :> "DEV_LEFT") @@ (131096 :> "DEV_BOTTOM") @@
    (131097 :> "DEV_CTRL")

\* Bit positions in dict insertion order (15 and 16 are commented out).
BUTTON_BIT_ORDER ==
    << 0, 1, 2, 3, 4, 5, 6, 7, 8, 9, 10, 11, 12, 13, 14,
       17, 18, 19, 20, 21, 22, 23, 24, 25, 26, 27, 28, 29, 30, 31 >>

BUTTON_BIT_MAP ==
    (0 :> "SC_KEY_1") @@ (1 :> "SC_KEY_2") @@ (2 :> "SC_KEY_3") @@ (3 :> "SC_KEY_4") @@
    (4 :> "SC_KEY_5") @@ (5 :> "SC_KEY_6") @@ (6 :> "SC_KEY_CTRL") @@ (7 :> "SC_KEY_ALT") @@
    (8 :> "SC_KEY_SHIFT") @@ (9 :> "SC_KEY_ESC") @@ (10 :> "SC_KEY_FRONT") @@
    (11 :> "SC_KEY_RIGHT") @@ (12 :> "SC_KEY_TOP") @@ (13 :> "SC_KEY_FIT") @@
    (14 :> "SC_KEY_2D3D") @@
    (17 :> "SC_KEY_1_B") @@ (18 :> "SC_KEY_2_B") @@ (19 :> "SC_KEY_3_B") @@
    (20 :> "SC_KEY_4_B") @@ (21 :> "SC_KEY_5_B") @@ (22 :> "SC_KEY_6_B") @@
    (23 :> "SC_KEY_CTRL_B") @@ (24 :> "SC_KEY_ALT_B") @@ (25 :> "SC_KEY_SHIFT_B") @@
    (26 :> "SC_KEY_ESC_B") @@ (27 :> "SC_KEY_FRONT_B") @@ (28 :> "SC_KEY_RIGHT_B") @@
    (29 :> "SC_KEY_TOP_B") @@ (30 :> "SC_KEY_FIT_B") @@ (31 :> "SC_KEY_2D3D_B")

EVDEV_3DMOUSE_LOW_LEVEL_BUTTON_MAP ==
    ("SC_KEY_1" :> ecodes.BTN_MISC + 0) @@ ("SC_KEY_2" :> ecodes.BTN_MISC + 1) @@
    ("SC_KEY_3" :> ecodes.BTN_MISC + 2) @@ ("SC_KEY_4" :> ecodes.BTN_MISC + 3) @@
    ("SC_KEY_5" :> ecodes.BTN_MISC + 4) @@ ("SC_KEY_6" :> ecodes.BTN_MISC + 5) @@
    ("SC_KEY_CTRL" :> ecodes.BTN_MISC + 6) @@ ("SC_KEY_ALT" :> ecodes.BTN_MISC + 7) @@
    ("SC_KEY_SHIFT" :> ecodes.BTN_MISC + 8) @@ ("SC_KEY_ESC" :> ecodes.BTN_MISC + 9) @@
    ("SC_KEY_FRONT" :> ecodes.BTN_MISC + 10) @@ ("SC_KEY_RIGHT" :> ecodes.BTN_MISC + 11) @@
    ("SC_KEY_TOP" :> ecodes.BTN_MISC + 12) @@ ("SC_KEY_FIT" :> ecodes.BTN_MISC + 13) @@
    ("SC_KEY_2D3D" :> ecodes.BTN_MISC + 14) @@ ("SC_KEY_1_B" :> ecodes.BTN_MISC + 17) @@
    ("SC_KEY_2_B" :> ecodes.BTN_MISC + 18) @@ ("SC_KEY_3_B" :> ecodes.BTN_MISC + 19) @@
    ("SC_KEY_4_B" :> ecodes.BTN_MISC + 20) @@ ("SC_KEY_5_B" :> ecodes.BTN_MISC + 21) @@
    ("SC_KEY_6_B" :> ecodes.BTN_MISC + 22) @@ ("SC_KEY_CTRL_B" :> ecodes.BTN_MISC + 23) @@
    ("SC_KEY_ALT_B" :> ecodes.BTN_MISC + 24) @@ ("SC_KEY_SHIFT_B" :> ecodes.BTN_MISC + 25) @@
    ("SC_KEY_ESC_B" :> ecodes.BTN_MISC + 26) @@ ("SC_KEY_FRONT_B" :> ecodes.BTN_MISC + 27) @@
    ("SC_KEY_RIGHT_B" :> ecodes.BTN_MISC + 28) @@ ("SC_KEY_TOP_B" :> ecodes.BTN_MISC + 29) @@
    ("SC_KEY_FIT_B" :> ecodes.BTN_MISC + 30) @@ ("SC_KEY_2D3D_B" :> ecodes.BTN_MISC + 31)

HIGH_LEVEL_EVENT_MAP_FOR_UINPUT ==
    (131081 :> ecodes.BTN_SIDE) @@ (131082 :> ecodes.BTN_EXTRA) @@
    (131083 :> ecodes.BTN_FORWARD) @@ (131084 :> ecodes.BTN_GEAR_UP) @@
    (131094 :> ecodes.BTN_SIDE + 1) @@ (131095 :> ecodes.BTN_EXTRA + 1) @@
    (131096 :> ecodes.BTN_FORWARD + 1) @@
    (131085 :> ecodes.BTN_LEFT) @@ (131086 :> ecodes.BTN_RIGHT) @@
    (131087 :> ecodes.BTN_MISC + 34) @@ (131088 :> ecodes.BTN_MISC + 35) @@
    (131089 :> ecodes.BTN_MISC + 36) @@ (131090 :> ecodes.BTN_MISC + 37) @@
    (131091 :> ecodes.BTN_MISC + 38) @@ (131092 :> ecodes.BTN_MISC + 39) @@
    (131093 :> ecodes.BTN_MISC + 40) @@ (131097 :> ecodes.BTN_MISC + 41)

\* The high-level entries of the gamepad table (keys carry the SC_ prefix).
EVDEV_GAMEPAD_BUTTON_MAP ==
    ("SC_DEV_WHEEL_LEFT" :> ecodes.BTN_TL2) @@ ("SC_DEV_WHEEL_RIGHT" :> ecodes.BTN_TR2) @@
    ("SC_EVT_HNDL_SENS_DLG" :> ecodes.BTN_TRIGGER_HAPPY1 + 18) @@
    ("SC_EVT_HNDL_THRESH_DLG" :> ecodes.BTN_TRIGGER_HAPPY1 + 19) @@
    ("SC_EVT_HNDL_LCD_DLG" :> ecodes.BTN_TRIGGER_HAPPY1 + 20) @@
    ("SC_EVT_HNDL_LEDS_DLG" :> ecodes.BTN_TRIGGER_HAPPY1 + 21) @@
    ("SC_EVT_APPL_IN_FRGRND" :> ecodes.BTN_TRIGGER_HAPPY1 + 22) @@
    ("SC_EVT_HNDL_KBD_DLG" :> ecodes.BTN_TRIGGER_HAPPY1 + 23) @@
    ("SC_EVT_HNDL_WFL_DLG" :> ecodes.BTN_TRIGGER_HAPPY1 + 24) @@
    ("SC_DEV_CTRL" :> ecodes.BTN_TRIGGER_HAPPY1 + 25)

(***************************************************************************)
(* Samples and sink writes.                                               *)
(***************************************************************************)
AxisOrder == << "x", "y", "z", "a", "b", "c" >>

Axes == { AxisOrder[i] : i \in 1..Len(AxisOrder) }

evdev_abs_map ==
    [ x |-> ecodes.ABS_X, y |-> ecodes.ABS_Y, z |-> ecodes.ABS_Z,
      a |-> ecodes.ABS_RX, b |-> ecodes.ABS_RY, c |-> ecodes.ABS_RZ ]

\* uinput_device.write(type, code, value) and uinput_device.syn()
Write(type, code, value) == [ type |-> type, code |-> code, value |-> value ]

Syn == Write(ecodes.EV_SYN, ecodes.SYN_REPORT, 0)

ZeroAxes == [ a \in Axes |-> 0 ]

\* data[...] of ScDaemonComm.fetch_data: the six axes and the event field.
MkSample(v, e) ==
    [ x |-> v[1], y |-> v[2], z |-> v[3], a |-> v[4], b |-> v[5], c |-> v[6], event |-> e ]

(***************************************************************************)
(* BaseVirtualController.update: the axis pass.                           *)
(***************************************************************************)
\* current_axis_values: int(data[axis] * AXIS_SCALE) on Python integers.
ScaledAxes(data) == [ a \in Axes |-> data[a] * AXIS_SCALE ]

\* `if value != self.last_axis_values[axis]`
AxisChangedFromZero(value, last) == value # 0

AxisChanged(value, last) == value # last

\* The EV_ABS writes of the loop over current_axis_values, in dict order.
AxisWrites(last, cur) ==
    LET changed == SelectSeq(AxisOrder, LAMBDA a : AxisChanged(cur[a], last[a]))
    IN  [ i \in 1..Len(changed) |->
            Write(ecodes.EV_ABS, evdev_abs_map[changed[i]], cur[changed[i]]) ]

\* self.last_axis_values.update(current_axis_values)
AxisStateKept(last, cur) == last

AxisStateAfter(last, cur) == cur

\* update(data) of the base class: (motion_changed, current_axis_values), the
\* writes it made and the new last_axis_values.  Without a device it returns
\* (False, {}) and touches nothing.
BaseUpdate(uinput_device, last, data) ==
    IF ~uinput_device
    THEN [ motion_changed |-> FALSE, current_axis_values |-> None,
           writes |-> << >>, last_axis_values |-> last ]
    ELSE LET cur == ScaledAxes(data)
             w   == AxisWrites(last, cur)
         IN  [ motion_changed |-> Len(w) > 0, current_axis_values |-> cur,
               writes |-> w, last_axis_values |-> AxisStateAfter(last, cur) ]

(***************************************************************************)
(* Virtual3DMouseController.update: high-level and low-level buttons.     *)
(***************************************************************************)
Abs(v) == IF v < 0 THEN -v ELSE v

\* is_any_axis_moving = any(abs(val) > 0 for val in current_axis_values.values())
IsAnyAxisMovingTranslationOnly(cur) == \E a \in {"x", "y", "z"} : Abs(cur[a]) > 0

IsAnyAxisMovingPositiveOnly(cur) == \E a \in Axes : cur[a] > 0

IsAnyAxisMoving(cur) == \E a \in Axes : Abs(cur[a]) > 0

\* current_high_level_event
CurrentHighLevelEventIgnoringMotion(event, moving) ==
    IF event >= HIGH_LEVEL_EVENT_THRESHOLD THEN Some(event) ELSE None

CurrentHighLevelEvent(event, moving) ==
    IF event >= HIGH_LEVEL_EVENT_THRESHOLD /\ ~moving THEN Some(event) ELSE None

\* "Release the previous high-level event if it's no longer active"
MouseHighLevelReleaseForMapped(last, cur) ==
    IF /\ last # None /\ last # cur /\ last[1] \in DOMAIN HIGH_LEVEL_EVENT_MAP_FOR_UINPUT
       /\ (cur = None \/ cur[1] \in DOMAIN HIGH_LEVEL_EVENT_MAP_FOR_UINPUT)
    THEN << Write(ecodes.EV_KEY, HIGH_LEVEL_EVENT_MAP_FOR_UINPUT[last[1]], 0) >>
    ELSE << >>

MouseHighLevelRelease(last, cur) ==
    IF last # None /\ last # cur /\ last[1] \in DOMAIN HIGH_LEVEL_EVENT_MAP_FOR_UINPUT
    THEN << Write(ecodes.EV_KEY, HIGH_LEVEL_EVENT_MAP_FOR_UINPUT[last[1]], 0) >>
    ELSE << >>

\* "Press the current high-level event if it's new and active"
MouseHighLevelPress(last, cur) ==
    IF cur # None /\ cur # last /\ cur[1] \in DOMAIN HIGH_LEVEL_EVENT_MAP_FOR_UINPUT
    THEN << Write(ecodes.EV_KEY, HIGH_LEVEL_EVENT_MAP_FOR_UINPUT[cur[1]], 1) >>
    ELSE << >>

\* The two writes in program order: release, then press.
MouseHighLevelWritesPressFirst(last, cur) ==
    MouseHighLevelPress(last, cur) \o MouseHighLevelRelease(last, cur)

MouseHighLevelWrites(last, cur) ==
    MouseHighLevelRelease(last, cur) \o MouseHighLevelPress(last, cur)

\* value >> bit_position on a c_int value (-2^31 <= value < 2^31)
Shr(value, bit_position) ==
    IF bit_position >= 31 THEN (IF value < 0 THEN -1 ELSE 0)
    ELSE value \div (2 ^ bit_position)

BitSetOrNextBit(event, bit_position) ==
    \/ Shr(event, bit_position) % 2 = 1
    \/ bit_position = 14 /\ Shr(event, 15) % 2 = 1

BitSet(event, bit_position) == Shr(event, bit_position) % 2 = 1

\* current_low_level_button_names
CurrentLowLevelButtonNamesSigned(event, cur_high, moving) ==
    IF event # 0 /\ event < HIGH_LEVEL_EVENT_THRESHOLD /\ cur_high = None /\ ~moving
    THEN { BUTTON_BIT_MAP[b] : b \in { b \in DOMAIN BUTTON_BIT_MAP : BitSet(event, b) } }
    ELSE { }

CurrentLowLevelButtonNamesAnyRange(event, cur_high, moving) ==
    IF event > 0 /\ ~moving
    THEN { BUTTON_BIT_MAP[b] : b \in { b \in DOMAIN BUTTON_BIT_MAP : BitSet(event, b) } }
    ELSE { }

CurrentLowLevelButtonNames(event, cur_high, moving) ==
    IF event > 0 /\ event < HIGH_LEVEL_EVENT_THRESHOLD /\ cur_high = None /\ ~moving
    THEN { BUTTON_BIT_MAP[b] : b \in { b \in DOMAIN BUTTON_BIT_MAP : BitSet(event, b) } }
    ELSE { }

\* BUTTON_BIT_MAP.values(), in table order.
BUTTON_NAME_ORDER == [ i \in 1..Len(BUTTON_BIT_ORDER) |-> BUTTON_BIT_MAP[BUTTON_BIT_ORDER[i]] ]

\* The if / elif of the loop body for one button: the value written (1 press,
\* 0 release), or -1 when nothing is written.
LowLevelEdgePressOnly(is_currently_pressed, was_previously_pressed) ==
    IF is_currently_pressed /\ ~was_previously_pressed THEN 1 ELSE -1

LowLevelEdge(is_currently_pressed, was_previously_pressed) ==
    IF is_currently_pressed /\ ~was_previously_pressed THEN 1
    ELSE IF ~is_currently_pressed /\ was_previously_pressed THEN 0
    ELSE -1

\* The loop skipped when no button is desired.
LowLevelWritesUnlessIdle(last_state, names) ==
    IF names = { } THEN << >>
    ELSE LET written == SelectSeq(BUTTON_NAME_ORDER, LAMBDA n :
                            /\ n \in DOMAIN EVDEV_3DMOUSE_LOW_LEVEL_BUTTON_MAP
                            /\ LowLevelEdge(n \in names, n \in last_state) # -1)
         IN  [ i \in 1..Len(written) |->
                 Write(ecodes.EV_KEY, EVDEV_3DMOUSE_LOW_LEVEL_BUTTON_MAP[written[i]],
                       LowLevelEdge(written[i] \in names, written[i] \in last_state)) ]

\* The loop over BUTTON_BIT_MAP.values(), in table order.  last_state is the
\* set of names last_low_level_button_state maps to True (.get(name, False)).
LowLevelWrites(last_state, names) ==
    LET written == SelectSeq(BUTTON_NAME_ORDER, LAMBDA n :
                       /\ n \in DOMAIN EVDEV_3DMOUSE_LOW_LEVEL_BUTTON_MAP
                       /\ LowLevelEdge(n \in names, n \in last_state) # -1)
    IN  [ i \in 1..Len(written) |->
            Write(ecodes.EV_KEY, EVDEV_3DMOUSE_LOW_LEVEL_BUTTON_MAP[written[i]],
                  LowLevelEdge(written[i] \in names, written[i] \in last_state)) ]

\* self.last_low_level_button_state[sc_button_name] = is_currently_pressed
LowLevelStateAfter(last_state, names) ==
    (names \cap DOMAIN EVDEV_3DMOUSE_LOW_LEVEL_BUTTON_MAP)
        \cup (last_state \ DOMAIN EVDEV_3DMOUSE_LOW_LEVEL_BUTTON_MAP)

\* Virtual3DMouseController.update(data) on a controller in state
\* (last_axis, last_high, last_low): the writes of the cycle and the state after.
MouseUpdate(uinput_device, last_axis, last_high, last_low, data) ==
    LET base == BaseUpdate(uinput_device, last_axis, data)
    IN  IF ~uinput_device
        THEN [ last_axis_values |-> base.last_axis_values,
               last_high_level_event_state |-> last_high,
               last_low_level_button_state |-> last_low,
               writes |-> << >> ]
        ELSE LET moving   == IsAnyAxisMoving(base.current_axis_values)
                 cur_high == CurrentHighLevelEvent(data.event, moving)
                 names    == CurrentLowLevelButtonNames(data.event, cur_high, moving)
             IN  [ last_axis_values |-> base.last_axis_values,
                   last_high_level_event_state |-> cur_high,
                   last_low_level_button_state |-> LowLevelStateAfter(last_low, names),
                   writes |-> base.writes
                              \o MouseHighLevelWrites(last_high, cur_high)
                              \o LowLevelWrites(last_low, names)
                              \o << Syn >> ]

(***************************************************************************)
(* VirtualGamepadController.update: high-level buttons, then the pass     *)
(* over GAMEPAD_BIT_TO_EVDEV_CODE, a name the file never defines.         *)
(***************************************************************************)
\* EVENT_ID_TO_NAME.get(code); "" stands for None (both are falsy).
EventName(code) == IF code \in DOMAIN EVENT_ID_TO_NAME THEN EVENT_ID_TO_NAME[code] ELSE ""

\* gamepad_map_key derived from event_name_from_map
GamepadMapKey(event_name_from_map) ==
    IF event_name_from_map = "DEV_WHEEL_LEFT" THEN "SC_DEV_WHEEL_LEFT"
    ELSE IF event_name_from_map = "DEV_WHEEL_RIGHT" THEN "SC_DEV_WHEEL_RIGHT"
    ELSE IF event_name_from_map = "DEV_CTRL" THEN "SC_DEV_CTRL"
    ELSE IF event_name_from_map \in
              { "EVT_HNDL_SENS_DLG", "EVT_HNDL_THRESH_DLG", "EVT_HNDL_LCD_DLG",
                "EVT_HNDL_LEDS_DLG", "EVT_APPL_IN_FRGRND", "EVT_HNDL_KBD_DLG",
                "EVT_HNDL_WFL_DLG" }
         THEN event_name_from_map
         ELSE ""

\* `if gamepad_map_key and gamepad_map_key in EVDEV_GAMEPAD_BUTTON_MAP: write(...)`
GamepadKeyWrite(code, value) ==
    LET key == GamepadMapKey(EventName(code))
    IN  IF key # "" /\ key \in DOMAIN EVDEV_GAMEPAD_BUTTON_MAP
        THEN << Write(ecodes.EV_KEY, EVDEV_GAMEPAD_BUTTON_MAP[key], value) >>
        ELSE << >>

GamepadHighLevelRelease(last, cur) ==
    IF last # None /\ last # cur THEN GamepadKeyWrite(last[1], 0) ELSE << >>

GamepadHighLevelPress(last, cur) ==
    IF cur # None /\ cur # last THEN GamepadKeyWrite(cur[1], 1) ELSE << >>

GamepadHighLevelWrites(last, cur) ==
    GamepadHighLevelRelease(last, cur) \o GamepadHighLevelPress(last, cur)

\* VirtualGamepadController.update(data).  With a device, the high-level part
\* runs and then the loop header over GAMEPAD_BIT_TO_EVDEV_CODE raises
\* NameError: last_button_state is never written and syn() is never reached.
GamepadUpdate(uinput_device, last_axis, last_high, data) ==
    LET base == BaseUpdate(uinput_device, last_axis, data)
    IN  IF ~uinput_device
        THEN [ last_axis_values |-> base.last_axis_values,
               last_high_level_event_state |-> last_high,
               writes |-> << >>, raised |-> FALSE ]
        ELSE LET moving   == IsAnyAxisMoving(base.current_axis_values)
                 cur_high == CurrentHighLevelEvent(data.event, moving)
             IN  [ last_axis_values |-> base.last_axis_values,
                   last_high_level_event_state |-> cur_high,
                   writes |-> base.writes \o GamepadHighLevelWrites(last_high, cur_high),
                   raised |-> TRUE ]

(***************************************************************************)
(* State.                                                                 *)
(***************************************************************************)
VARIABLES
    \* configuration and construction (__main__)
    mouse_controller,                   \* TRUE: a Virtual3DMouseController; FALSE: None
    gamepad_controller,                 \* TRUE: a VirtualGamepadController; FALSE: None
    \* Virtual3DMouseController
    mouse_uinput_device,                \* TRUE: a UInput; FALSE: None (setup failed)
    mouse_last_axis_values,
    mouse_last_high_level_event_state,
    last_low_level_button_state,        \* the names mapped to True
    mouse_writes,                       \* the sink writes of the last update call
    mouse_data,                         \* the sample of the last update call
    mouse_pre,                          \* the controller's fields before that call
    mouse_sink,                         \* the UInput device as its writes have left it
    mouse_updates,                      \* update calls made by the dispatch loop
    \* VirtualGamepadController
    gamepad_uinput_device,
    gamepad_last_axis_values,
    gamepad_last_high_level_event_state,
    gamepad_writes,
    gamepad_data,
    gamepad_pre,
    gamepad_updates,
    gamepad_raised,                     \* the last update call ended in NameError
    \* SharedSpaceControlData
    shared_data,                        \* _data: None or the stored sample
    lock,                               \* _lock: "free" or the thread holding it
    new_data_event,                     \* _new_data_event
    \* SpaceControlDataAcquirer
    running,                            \* _running
    acq_pc,
    acq_fetched,                        \* (data, status) of the last fetch_data
    acq_log,                            \* highest level logged by the last iteration
    \* the dispatch loop of __main__
    main_pc,
    new_data,                           \* the value get_data returned
    sink_lost,                          \* the profile whose sink write raised, or "none"
    \* resources released at shutdown
    is_connected,                       \* ScDaemonComm._is_connected
    mouse_closed,                       \* the mouse's UInput has been closed
    gamepad_closed,                     \* the gamepad's UInput has been closed
    sc_session,                         \* the daemon's side: "none", "open" (scConnect2
                                        \* returned 0) or "closed" (scDisconnect called)
    dev_count,                          \* ScDaemonComm._dev_count
    \* history
    published,                          \* set_data calls so far; the n-th stores sample n
    fetches_after_stop                  \* fetch_data calls begun with _running False

mouseVars ==
    << mouse_uinput_device, mouse_last_axis_values, mouse_last_high_level_event_state,
       last_low_level_button_state, mouse_writes, mouse_data, mouse_pre, mouse_sink >>

gamepadVars ==
    << gamepad_uinput_device, gamepad_last_axis_values,
       gamepad_last_high_level_event_state, gamepad_writes, gamepad_data,
       gamepad_pre, gamepad_raised >>

configVars == << mouse_controller, gamepad_controller >>

mailboxVars == << shared_data, lock, new_data_event >>

acquirerVars == << running, acq_pc, acq_fetched, acq_log >>

mainVars == << main_pc, new_data, sink_lost, mouse_updates, gamepad_updates >>

resourceVars == << is_connected, mouse_closed, gamepad_closed, sc_session, dev_count >>

historyVars == << published, fetches_after_stop >>

vars ==
    << configVars, mouseVars, gamepadVars, mailboxVars, acquirerVars, mainVars,
       resourceVars, historyVars >>

(***************************************************************************)
(* Bounds and inputs.                                                     *)
(***************************************************************************)
MaxPublished == 3

MaxUpdates == 3

\* fetches_after_stop counts up to this and stays there.
MaxFetchesAfterStop == 2

RawAxisVectors ==
    { << 0, 0, 0, 0, 0, 0 >>, << 100, 0, 0, 0, 0, 0 >>,
      << 0, 0, 0, 0, 0, -7 >>, << 0, 50, 1, 1, 1, -7 >> }

\* no change (-1, 0); bitmasks 1 and 3; the unmapped bits 15 (alone and with
\* bit 0) and 16; DEV_RIGHT and DEV_BACK, which share an output code; high-level codes
\* mapped by neither table (0x20000), by the mouse table only (DEV_FRONT)
\* and by both (DEV_WHEEL_LEFT, EVT_HNDL_SENS_DLG).
EventValues ==
    { -1, 0, 1, 3, 32768, 32769, 65536, 131072, 131081, 131082, 131085, 131087, 131094 }

Samples == { MkSample(v, e) : v \in RawAxisVectors, e \in EventValues }

\* What the driver hands the whole program: a button press and a displacement.
DriverSamples ==
    { MkSample(<< 0, 0, 0, 0, 0, 0 >>, 1), MkSample(<< 100, 0, 0, 0, 0, 0 >>, 0) }

\* scFetchStdData statuses: SC_OK, the two the loop treats as no change, an error.
FetchStatuses == { 0, 1, -1, 4 }

(***************************************************************************)
(* Construction and the update calls.                                     *)
(***************************************************************************)
\* The UInput device created by _setup_uinput: six absolute axes with
\* AbsInfo(value=0, ...) and every key up.  `alternates` records that no key
\* has been pressed while down or released while up.
SinkInit ==
    [ abs |-> [ code \in { evdev_abs_map[a] : a \in Axes } |-> 0 ],
      keys |-> { },
      alternates |-> TRUE ]

\* uinput_device.write(type, code, value) as the device sees it.
SinkWrite(sink, e) ==
    IF e.type = ecodes.EV_ABS
    THEN [ sink EXCEPT !.abs[e.code] = e.value ]
    ELSE IF e.type = ecodes.EV_KEY /\ e.value = 1
    THEN [ sink EXCEPT !.keys = @ \cup { e.code },
                       !.alternates = @ /\ e.code \notin sink.keys ]
    ELSE IF e.type = ecodes.EV_KEY /\ e.value = 0
    THEN [ sink EXCEPT !.keys = @ \ { e.code },
                       !.alternates = @ /\ e.code \in sink.keys ]
    ELSE sink

\* The device after a sequence of writes.
RECURSIVE SinkAfter(_, _)
SinkAfter(sink, w) ==
    IF w = << >> THEN sink ELSE SinkAfter(SinkWrite(sink, Head(w)), Tail(w))

\* Virtual3DMouseController.__init__; _setup_uinput leaves uinput_device None
\* when UInput(...) raises.  Nothing is constructed for a disabled device.
MouseInit ==
    /\ mouse_controller \in BOOLEAN
    /\ mouse_uinput_device \in (IF mouse_controller THEN BOOLEAN ELSE { FALSE })
    /\ mouse_last_axis_values = ZeroAxes
    /\ mouse_last_high_level_event_state = None
    /\ last_low_level_button_state = { }
    /\ mouse_writes = << >>
    /\ mouse_data = None
    /\ mouse_pre = None
    /\ mouse_sink = SinkInit

GamepadInit ==
    /\ gamepad_controller \in BOOLEAN
    /\ gamepad_uinput_device \in (IF gamepad_controller THEN BOOLEAN ELSE { FALSE })
    /\ gamepad_last_axis_values = ZeroAxes
    /\ gamepad_last_high_level_event_state = None
    /\ gamepad_writes = << >>
    /\ gamepad_data = None
    /\ gamepad_pre = None
    /\ gamepad_raised = FALSE

\* SharedSpaceControlData.__init__, SpaceControlDataAcquirer.__init__ and
\* start(), and the dispatch loop about to call get_data for the first time.
ThreadsInit ==
    /\ shared_data = None
    /\ lock = "free"
    /\ new_data_event = FALSE
    /\ running = TRUE
    /\ acq_pc = "while"
    /\ acq_fetched = [ data |-> None, status |-> 0 ]
    /\ acq_log = "none"
    /\ main_pc = "wait"
    /\ new_data = None
    /\ sink_lost = "none"
    /\ mouse_updates = 0
    /\ gamepad_updates = 0
    /\ published = 0
    /\ fetches_after_stop = 0

\* daemon_comm.connect() returned True with one device reported, and no
\* UInput has been closed.
ResourcesInit ==
    /\ is_connected = TRUE
    /\ mouse_closed = FALSE
    /\ gamepad_closed = FALSE
    /\ sc_session = "open"
    /\ dev_count = 1

\* mouse_controller.update(data)
MouseUpdateCall(data) ==
    \E r \in { MouseUpdate(mouse_uinput_device, mouse_last_axis_values,
                           mouse_last_high_level_event_state,
                           last_low_level_button_state, data) } :
        /\ mouse_last_axis_values' = r.last_axis_values
        /\ mouse_last_high_level_event_state' = r.last_high_level_event_state
        /\ last_low_level_button_state' = r.last_low_level_button_state
        /\ mouse_writes' = r.writes
        /\ \E after \in { SinkAfter(mouse_sink, r.writes) } : mouse_sink' = after
        /\ mouse_data' = Some(data)
        /\ mouse_pre' = Some([ last_axis_values |-> mouse_last_axis_values,
                               last_high_level_event_state |-> mouse_last_high_level_event_state,
                               last_low_level_button_state |-> last_low_level_button_state,
                               data |-> mouse_data ])
        /\ UNCHANGED mouse_uinput_device

\* gamepad_controller.update(data)
GamepadUpdateCall(data) ==
    \E r \in { GamepadUpdate(gamepad_uinput_device, gamepad_last_axis_values,
                             gamepad_last_high_level_event_state, data) } :
        /\ gamepad_last_axis_values' = r.last_axis_values
        /\ gamepad_last_high_level_event_state' = r.last_high_level_event_state
        /\ gamepad_writes' = r.writes
        /\ gamepad_raised' = r.raised
        /\ gamepad_data' = Some(data)
        /\ gamepad_pre' = Some([ last_axis_values |-> gamepad_last_axis_values,
                                 last_high_level_event_state |-> gamepad_last_high_level_event_state,
                                 data |-> gamepad_data ])
        /\ UNCHANGED gamepad_uinput_device

(***************************************************************************)
(* SpecDispatch: the two controllers driven directly with one sample      *)
(* stream, every sample handed to both update methods.  A call that       *)
(* raises leaves the writes and the state it made before the raise, and   *)
(* the object can be called again by a caller that caught the exception.  *)
(***************************************************************************)
InitDispatch ==
    /\ MouseInit /\ mouse_controller
    /\ GamepadInit /\ gamepad_controller
    /\ ThreadsInit /\ ResourcesInit

DispatchSample ==
    /\ \E data \in Samples :
         /\ MouseUpdateCall(data)
         /\ GamepadUpdateCall(data)
    /\ UNCHANGED << configVars, resourceVars, mailboxVars, acquirerVars, mainVars, historyVars >>

NextDispatch == DispatchSample

SpecDispatch == InitDispatch /\ [][NextDispatch]_vars

(***************************************************************************)
(* SpecAxisRange: the same, fed with raw axis readings at the ends of the *)
(* signed 16-bit range and on both sides of 32767 / AXIS_SCALE.           *)
(***************************************************************************)
BoundaryRawValues == { -32768, -1639, -1638, 0, 1638, 1639, 32767 }

BoundarySamples ==
    { MkSample(<< x, y, 0, 0, 0, 0 >>, 0) : x \in BoundaryRawValues, y \in { 0, 32767 } }

DispatchBoundarySample ==
    /\ \E data \in BoundarySamples :
         /\ MouseUpdateCall(data)
         /\ GamepadUpdateCall(data)
    /\ UNCHANGED << configVars, resourceVars, mailboxVars, acquirerVars, mainVars, historyVars >>

NextAxisRange == DispatchBoundarySample

SpecAxisRange == InitDispatch /\ [][NextAxisRange]_vars

(***************************************************************************)
(* SpaceControlDataAcquirer.run, with set_data inlined step by step.      *)
(***************************************************************************)
\* `while self._running:`
LoopConditionIgnoringStop(running_flag) == TRUE

LoopCondition(running_flag) == running_flag

AcqWhile ==
    /\ acq_pc = "while"
    /\ acq_pc' = IF LoopCondition(running) THEN "fetch" ELSE "ended"
    /\ UNCHANGED << configVars, resourceVars, mouseVars, gamepadVars, mailboxVars, running,
                    acq_fetched, acq_log, mainVars, historyVars >>

\* `if not self._is_connected: return None, 1`; otherwise what the driver says.
FetchStatusesWhen(connected) == IF connected THEN FetchStatuses ELSE { 1 }

\* fetch_data's result: (dict, 0) on SC_OK, (None, status) otherwise.
FetchResult(data, status) ==
    IF status = 0 THEN [ data |-> Some(data), status |-> 0 ]
    ELSE [ data |-> None, status |-> status ]

\* `if status == 0 and data:` (the elif branches only log)
PublishesUnlessError(fetched) == fetched.status \in { 0, 1, -1 }

Publishes(fetched) == fetched.status = 0 /\ fetched.data # None

\* The logging of one iteration: every iteration logs the fetch at debug
\* level; `elif status != 0 and status != 1 and status != -1` adds an error;
\* `elif status == 1 or status == -1` logs at debug level only.
IterationLogLevel(fetched) ==
    IF Publishes(fetched) THEN "debug"
    ELSE IF fetched.status # 0 /\ fetched.status # 1 /\ fetched.status # -1 THEN "error"
    ELSE "debug"

\* data, status = self.daemon_comm.fetch_data(...), and the branch on it
AcqFetch ==
    /\ acq_pc = "fetch"
    /\ \E data \in DriverSamples, status \in FetchStatusesWhen(is_connected) :
         /\ status = 0 => published < MaxPublished
         /\ acq_fetched' = FetchResult(data, status)
         /\ acq_log' = IterationLogLevel(FetchResult(data, status))
         /\ acq_pc' = IF Publishes(FetchResult(data, status)) THEN "set_data_lock" ELSE "while"
    /\ fetches_after_stop' =
           IF ~running /\ fetches_after_stop < MaxFetchesAfterStop
           THEN fetches_after_stop + 1 ELSE fetches_after_stop
    /\ UNCHANGED << configVars, resourceVars, mouseVars, gamepadVars, mailboxVars, running,
                    mainVars, published >>

\* set_data: `with self._lock:`
AcqSetDataLock ==
    /\ acq_pc = "set_data_lock"
    /\ lock = "free"
    /\ lock' = "acquirer"
    /\ acq_pc' = "set_data_store"
    /\ UNCHANGED << configVars, resourceVars, mouseVars, gamepadVars, shared_data, new_data_event,
                    running, acq_fetched, acq_log, mainVars, historyVars >>

\* `self._data = data`: what the slot holds afterwards
StoredKeepingUnread(old, new) == IF old # None THEN old ELSE new

Stored(old, new) == new

AcqSetDataStore ==
    /\ acq_pc = "set_data_store"
    /\ shared_data' = Stored(shared_data,
                             Some([ sample |-> acq_fetched.data[1], n |-> published + 1 ]))
    /\ published' = published + 1
    /\ acq_pc' = "set_data_signal"
    /\ UNCHANGED << configVars, resourceVars, mouseVars, gamepadVars, lock, new_data_event, running,
                    acq_fetched, acq_log, mainVars, fetches_after_stop >>

\* `self._new_data_event.set()`
AcqSetDataSignal ==
    /\ acq_pc = "set_data_signal"
    /\ new_data_event' = TRUE
    /\ acq_pc' = "set_data_unlock"
    /\ UNCHANGED << configVars, resourceVars, mouseVars, gamepadVars, shared_data, lock, running,
                    acq_fetched, acq_log, mainVars, historyVars >>

\* leaving the `with` block
AcqSetDataUnlock ==
    /\ acq_pc = "set_data_unlock"
    /\ lock' = "free"
    /\ acq_pc' = "while"
    /\ UNCHANGED << configVars, resourceVars, mouseVars, gamepadVars, shared_data, new_data_event,
                    running, acq_fetched, acq_log, mainVars, historyVars >>

(***************************************************************************)
(* The dispatch loop of __main__, with get_data inlined step by step.     *)
(***************************************************************************)
\* get_data: `self._new_data_event.wait(timeout)` returns at once when the
\* event is set ...
MainWaitSignalled ==
    /\ main_pc = "wait"
    /\ new_data_event
    /\ main_pc' = "get_data_lock"
    /\ UNCHANGED << configVars, resourceVars, mouseVars, gamepadVars, mailboxVars, acquirerVars,
                    new_data, sink_lost, mouse_updates, gamepad_updates, historyVars >>

\* ... and after the timeout when it is not; its result is discarded.
MainWaitTimeout ==
    /\ main_pc = "wait"
    /\ ~new_data_event
    /\ main_pc' = "get_data_lock"
    /\ UNCHANGED << configVars, resourceVars, mouseVars, gamepadVars, mailboxVars, acquirerVars,
                    new_data, sink_lost, mouse_updates, gamepad_updates, historyVars >>

\* `with self._lock:`
MainGetDataLock ==
    /\ main_pc = "get_data_lock"
    /\ lock = "free"
    /\ lock' = "main"
    /\ main_pc' = "get_data_copy"
    /\ UNCHANGED << configVars, resourceVars, mouseVars, gamepadVars, shared_data, new_data_event,
                    acquirerVars, new_data, sink_lost, mouse_updates, gamepad_updates, historyVars >>

\* `data_copy = self._data.copy() if self._data else None`
DataCopyNothing(data) == None

DataCopy(data) == data

MainGetDataCopy ==
    /\ main_pc = "get_data_copy"
    /\ new_data' = DataCopy(shared_data)
    /\ main_pc' = "get_data_clear"
    /\ UNCHANGED << configVars, resourceVars, mouseVars, gamepadVars, mailboxVars, acquirerVars,
                    sink_lost, mouse_updates, gamepad_updates, historyVars >>

\* `self._new_data_event.clear()`
MainGetDataClear ==
    /\ main_pc = "get_data_clear"
    /\ new_data_event' = FALSE
    /\ main_pc' = "get_data_unlock"
    /\ UNCHANGED << configVars, resourceVars, mouseVars, gamepadVars, shared_data, lock, acquirerVars,
                    new_data, sink_lost, mouse_updates, gamepad_updates, historyVars >>

\* `return data_copy` leaves the `with` block; then `if new_data:`
MainGetDataReturn ==
    /\ main_pc = "get_data_unlock"
    /\ lock' = "free"
    /\ main_pc' = IF new_data # None THEN "mouse_update" ELSE "wait"
    /\ UNCHANGED << configVars, resourceVars, mouseVars, gamepadVars, shared_data, new_data_event,
                    acquirerVars, new_data, sink_lost, mouse_updates, gamepad_updates, historyVars >>

\* `if mouse_controller: mouse_controller.update(new_data)`
MainMouseUpdate ==
    /\ main_pc = "mouse_update"
    /\ mouse_updates < MaxUpdates
    /\ IF mouse_controller
       THEN /\ MouseUpdateCall(new_data[1].sample)
            /\ mouse_updates' = mouse_updates + 1
       ELSE UNCHANGED << mouseVars, mouse_updates >>
    /\ main_pc' = "gamepad_update"
    /\ UNCHANGED << configVars, resourceVars, gamepadVars, mailboxVars, acquirerVars, new_data, sink_lost,
                    gamepad_updates, historyVars >>

\* `if gamepad_controller: gamepad_controller.update(new_data)`; the NameError
\* leaves the loop through `except Exception`, which ends in sys.exit(1).
MainGamepadUpdate ==
    /\ main_pc = "gamepad_update"
    /\ gamepad_updates < MaxUpdates
    /\ IF gamepad_controller
       THEN /\ GamepadUpdateCall(new_data[1].sample)
            /\ gamepad_updates' = gamepad_updates + 1
            /\ main_pc' = IF gamepad_raised' THEN "exit_1" ELSE "wait"
       ELSE /\ UNCHANGED << gamepadVars, gamepad_updates >>
            /\ main_pc' = "wait"
    /\ UNCHANGED << configVars, resourceVars, mouseVars, mailboxVars, acquirerVars, new_data, sink_lost,
                    mouse_updates, historyVars >>

\* uinput_device.write(...) or syn() raises inside mouse_controller.update
\* (the device node is gone): nothing in update or in the loop catches it, so
\* it reaches `except OSError` / `except Exception`, both ending in sys.exit(1).
\* The controller's fields are not read again.
MainMouseUpdateSinkLost ==
    /\ main_pc = "mouse_update"
    /\ mouse_updates < MaxUpdates
    /\ mouse_controller /\ mouse_uinput_device
    /\ sink_lost' = "mouse"
    /\ mouse_updates' = mouse_updates + 1
    /\ main_pc' = "exit_1"
    /\ UNCHANGED << configVars, resourceVars, mouseVars, gamepadVars, mailboxVars,
                    acquirerVars, new_data, gamepad_updates, historyVars >>

\* The same inside gamepad_controller.update, at one of its axis or key writes.
MainGamepadUpdateSinkLost ==
    /\ main_pc = "gamepad_update"
    /\ gamepad_updates < MaxUpdates
    /\ gamepad_controller /\ gamepad_uinput_device
    /\ sink_lost' = "gamepad"
    /\ gamepad_updates' = gamepad_updates + 1
    /\ main_pc' = "exit_1"
    /\ UNCHANGED << configVars, resourceVars, mouseVars, gamepadVars, mailboxVars,
                    acquirerVars, new_data, mouse_updates, historyVars >>

(***************************************************************************)
(* The KeyboardInterrupt handler of __main__.                             *)
(***************************************************************************)
\* The positions of the dispatch loop, inside `try:`.
LoopPositions ==
    { "wait", "get_data_lock", "get_data_copy", "get_data_clear", "get_data_unlock",
      "mouse_update", "gamepad_update" }

\* Ctrl+C while the loop runs: control goes to `except KeyboardInterrupt`;
\* a `with self._lock` block being left releases the lock.
LockKeptOnExit(holder, thread) == holder

LockAfterLeavingWith(holder, thread) == IF holder = thread THEN "free" ELSE holder

MainKeyboardInterrupt ==
    /\ main_pc \in LoopPositions
    /\ main_pc' = "stop"
    /\ lock' = LockAfterLeavingWith(lock, "main")
    /\ UNCHANGED << configVars, resourceVars, mouseVars, gamepadVars, shared_data,
                    new_data_event, acquirerVars, new_data, sink_lost, mouse_updates,
                    gamepad_updates, historyVars >>

\* data_acquirer_thread.stop(): `self._running = False`
MainStop ==
    /\ main_pc = "stop"
    /\ running' = FALSE
    /\ main_pc' = "join"
    /\ UNCHANGED << configVars, resourceVars, mouseVars, gamepadVars, mailboxVars,
                    acq_pc, acq_fetched, acq_log, new_data, sink_lost, mouse_updates,
                    gamepad_updates, historyVars >>

\* Thread.join() returns once run() has returned.
JoinedAtOnce(pc) == TRUE

Joined(pc) == pc = "ended"

\* data_acquirer_thread.join()
MainJoin ==
    /\ main_pc = "join"
    /\ Joined(acq_pc)
    /\ main_pc' = "mouse_close"
    /\ UNCHANGED << configVars, resourceVars, mouseVars, gamepadVars, mailboxVars,
                    acquirerVars, new_data, sink_lost, mouse_updates, gamepad_updates,
                    historyVars >>

\* close(): `if self.uinput_device: self.uinput_device.close()`
Closes(controller, uinput_device) == controller /\ uinput_device

\* `if mouse_controller: mouse_controller.close()`
MainMouseClose ==
    /\ main_pc = "mouse_close"
    /\ mouse_closed' = Closes(mouse_controller, mouse_uinput_device)
    /\ main_pc' = "gamepad_close"
    /\ UNCHANGED << configVars, is_connected, gamepad_closed, sc_session, dev_count,
                    mouseVars, gamepadVars,
                    mailboxVars, acquirerVars, new_data, sink_lost, mouse_updates,
                    gamepad_updates, historyVars >>

\* `if gamepad_controller: gamepad_controller.close()`
MainGamepadClose ==
    /\ main_pc = "gamepad_close"
    /\ gamepad_closed' = Closes(gamepad_controller, gamepad_uinput_device)
    /\ main_pc' = "disconnect"
    /\ UNCHANGED << configVars, is_connected, mouse_closed, sc_session, dev_count,
                    mouseVars, gamepadVars,
                    mailboxVars, acquirerVars, new_data, sink_lost, mouse_updates,
                    gamepad_updates, historyVars >>

\* ScDaemonComm.disconnect(): `if self._is_connected:` scDisconnect() and
\* `self._is_connected = False`.  The session after the call.
SessionAfterDisconnect(connected, session) == IF connected THEN "closed" ELSE session

\* daemon_comm.disconnect(); the script then runs off its end.
MainDisconnect ==
    /\ main_pc = "disconnect"
    /\ sc_session' = SessionAfterDisconnect(is_connected, sc_session)
    /\ is_connected' = FALSE
    /\ main_pc' = "terminated"
    /\ UNCHANGED << configVars, mouse_closed, gamepad_closed, dev_count, mouseVars, gamepadVars,
                    mailboxVars, acquirerVars, new_data, sink_lost, mouse_updates,
                    gamepad_updates, historyVars >>

(***************************************************************************)
(* Spec: the acquisition thread and the dispatch loop running together.   *)
(***************************************************************************)
\* Every setting of the two ENABLE_* flags, and for an enabled device both
\* outcomes of _setup_uinput.
Init == MouseInit /\ GamepadInit /\ ThreadsInit /\ ResourcesInit

Next ==
    \/ AcqWhile
    \/ AcqFetch
    \/ AcqSetDataLock
    \/ AcqSetDataStore
    \/ AcqSetDataSignal
    \/ AcqSetDataUnlock
    \/ MainWaitSignalled
    \/ MainWaitTimeout
    \/ MainGetDataLock
    \/ MainGetDataCopy
    \/ MainGetDataClear
    \/ MainGetDataReturn
    \/ MainMouseUpdate
    \/ MainGamepadUpdate
    \/ MainMouseUpdateSinkLost
    \/ MainGamepadUpdateSinkLost
    \/ MainKeyboardInterrupt
    \/ MainStop
    \/ MainJoin
    \/ MainMouseClose
    \/ MainGamepadClose
    \/ MainDisconnect

Spec == Init /\ [][Next]_vars

\* The steps of the acquisition thread.
AcquirerNext ==
    \/ AcqWhile
    \/ AcqFetch
    \/ AcqSetDataLock
    \/ AcqSetDataStore
    \/ AcqSetDataSignal
    \/ AcqSetDataUnlock

\* SpecStop: Spec with the acquisition thread scheduled for as long as it can
\* take a step (fetch_data returns, the lock is handed over when free).
SpecStop == Spec /\ WF_vars(AcquirerNext)

\* The steps of the dispatch loop while it stays in `while True`.
DispatchLoopNext ==
    \/ MainWaitSignalled
    \/ MainWaitTimeout
    \/ MainGetDataLock
    \/ MainGetDataCopy
    \/ MainGetDataClear
    \/ MainGetDataReturn
    \/ MainMouseUpdate
    \/ MainGamepadUpdate

\* SpecTake: a dispatch loop that keeps calling get_data for ever: no
\* Ctrl+C, and both ENABLE_* flags False, so that no update can raise.  Both
\* threads are scheduled for as long as they can take a step.
InitTake == Init /\ ~mouse_controller /\ ~gamepad_controller

NextTake == AcquirerNext \/ DispatchLoopNext

SpecTake ==
    InitTake /\ [][NextTake]_vars /\ WF_vars(AcquirerNext) /\ WF_vars(DispatchLoopNext)

(***************************************************************************)
(* SpecExit: the program from daemon_comm.connect() to its exit.          *)
(***************************************************************************)
\* Statuses of scConnect2 and scGetDevNum (0 is SC_OK), and device counts.
ScStatuses == { 0, 1 }

DevCounts == { 0, 1, 2 }

\* __main__ about to call daemon_comm.connect(): no session, the acquisition
\* thread not created yet; the controllers hold the fields their
\* construction will give them.
StartupInit ==
    /\ shared_data = None
    /\ lock = "free"
    /\ new_data_event = FALSE
    /\ running = TRUE
    /\ acq_pc = "not_started"
    /\ acq_fetched = [ data |-> None, status |-> 0 ]
    /\ acq_log = "none"
    /\ main_pc = "connect"
    /\ new_data = None
    /\ sink_lost = "none"
    /\ mouse_updates = 0
    /\ gamepad_updates = 0
    /\ published = 0
    /\ fetches_after_stop = 0
    /\ is_connected = FALSE
    /\ mouse_closed = FALSE
    /\ gamepad_closed = FALSE
    /\ sc_session = "none"
    /\ dev_count = 0

InitExit == MouseInit /\ GamepadInit /\ StartupInit

\* `if not daemon_comm.connect(): ... sys.exit(1)`.  connect(): scConnect2,
\* then scGetDevNum; when the latter fails `self._is_connected = False` and
\* connect returns False.
MainConnect ==
    /\ main_pc = "connect"
    /\ \E sc_status \in ScStatuses, status_get_dev_num \in ScStatuses, dev_num \in DevCounts :
         /\ sc_session' = IF sc_status = 0 THEN "open" ELSE sc_session
         /\ is_connected' = (sc_status = 0 /\ status_get_dev_num = 0)
         /\ dev_count' = IF sc_status = 0 /\ status_get_dev_num = 0 THEN dev_num ELSE dev_count
         /\ main_pc' = IF is_connected' THEN "device_count" ELSE "exit_1"
    /\ UNCHANGED << configVars, mouse_closed, gamepad_closed, mouseVars, gamepadVars,
                    mailboxVars, acquirerVars, new_data, sink_lost, mouse_updates,
                    gamepad_updates, historyVars >>

\* `if daemon_comm.get_device_count() == 0: daemon_comm.disconnect(); sys.exit(0)`
MainNoDevices ==
    /\ main_pc = "device_count"
    /\ dev_count = 0
    /\ sc_session' = SessionAfterDisconnect(is_connected, sc_session)
    /\ is_connected' = FALSE
    /\ main_pc' = "exit_0"
    /\ UNCHANGED << configVars, mouse_closed, gamepad_closed, dev_count, mouseVars, gamepadVars,
                    mailboxVars, acquirerVars, new_data, sink_lost, mouse_updates,
                    gamepad_updates, historyVars >>

\* data_acquirer_thread.start(), the controllers' construction, and entry
\* into the dispatch loop.
MainStartAcquirer ==
    /\ main_pc = "device_count"
    /\ dev_count # 0
    /\ acq_pc' = "while"
    /\ main_pc' = "wait"
    /\ UNCHANGED << configVars, resourceVars, mouseVars, gamepadVars, mailboxVars,
                    running, acq_fetched, acq_log, new_data, sink_lost, mouse_updates,
                    gamepad_updates, historyVars >>

NextExit ==
    \/ MainConnect
    \/ MainNoDevices
    \/ MainStartAcquirer
    \/ Next

SpecExit == InitExit /\ [][NextExit]_vars

(***************************************************************************)
(* Vocabulary of the properties.                                          *)
(***************************************************************************)
KeyWrites(w) == SelectSeq(w, LAMBDA e : e.type = ecodes.EV_KEY)

AbsWrites(w) == SelectSeq(w, LAMBDA e : e.type = ecodes.EV_ABS)

Presses(w) == SelectSeq(w, LAMBDA e : e.type = ecodes.EV_KEY /\ e.value = 1)

Releases(w) == SelectSeq(w, LAMBDA e : e.type = ecodes.EV_KEY /\ e.value = 0)

\* The six scaled values of a sample, raw * AXIS_SCALE.
Scaled(d) == [ a \in Axes |-> d[a] * AXIS_SCALE ]

\* An update call has been made on a controller that has its device.
MouseCycle == mouse_data # None /\ mouse_uinput_device

GamepadCycle == gamepad_data # None /\ gamepad_uinput_device

\* Bit b of a low-level event value (0 < ev < 0x20000, so b <= 16 matters).
EventBit(ev, b) == b <= 16 /\ (ev \div (2 ^ b)) % 2 = 1

\* The table-mapped button names whose bit is set in ev.
MappedNamesOf(ev) == { BUTTON_BIT_MAP[b] : b \in { b \in DOMAIN BUTTON_BIT_MAP : EventBit(ev, b) } }

\* The release of the high-level button that was active before the cycle.
HeldHighLevelRelease(pre) ==
    IF pre.last_high_level_event_state # None
       /\ pre.last_high_level_event_state[1] \in DOMAIN HIGH_LEVEL_EVENT_MAP_FOR_UINPUT
    THEN << Write(ecodes.EV_KEY,
                  HIGH_LEVEL_EVENT_MAP_FOR_UINPUT[pre.last_high_level_event_state[1]], 0) >>
    ELSE << >>

\* Writes of `value` for the table bits that satisfy Keep, in table order.
LowLevelKeyWrites(Keep(_), value) ==
    LET bits == SelectSeq(BUTTON_BIT_ORDER, Keep)
    IN  [ i \in 1..Len(bits) |-> Write(ecodes.EV_KEY, ecodes.BTN_MISC + bits[i], value) ]

\* The axis writes are those of exactly the axes whose scaled value differs
\* from `last`, each carrying the scaled value.
AxisWritesExact(w, last, d) ==
    /\ \A a \in Axes :
         (\E i \in 1..Len(AbsWrites(w)) : AbsWrites(w)[i].code = evdev_abs_map[a])
             <=> (Scaled(d)[a] # last[a])
    /\ \A i \in 1..Len(AbsWrites(w)) :
         \E a \in Axes : AbsWrites(w)[i] = Write(ecodes.EV_ABS, evdev_abs_map[a], Scaled(d)[a])
    /\ Len(AbsWrites(w)) = Cardinality({ a \in Axes : Scaled(d)[a] # last[a] })

(***************************************************************************)
(* Properties of the mailbox and the two loops (Spec).                    *)
(***************************************************************************)
\* C1 (latest-wins): the slot only ever holds the sample of the latest set_data,
\* and whenever get_data copies a sample out it is that latest one; so of
\* samples S1..SN published between two takes only SN is returned, an
\* overwritten sample is never returned, and one sample at most is outstanding.
C1_LatestWins ==
    /\ shared_data # None => shared_data[1].n = published
    /\ (main_pc \in { "get_data_clear", "get_data_unlock" } /\ new_data # None)
           => new_data[1].n = published

\* Three samples published before the first take that returns data; it returns S3.
C1_Witness ==
    /\ mouse_controller /\ mouse_updates = 0 /\ gamepad_updates = 0
    /\ published = 3
    /\ main_pc = "get_data_clear"
    /\ new_data # None /\ new_data[1].n = 3

\* C2 (take on timeout): when get_data copies with the availability signal
\* unset (nothing published since the previous take), it returns None.
C2_TimeoutReturnsNoData ==
    (main_pc = "get_data_clear" /\ ~new_data_event) => new_data = None

\* C3 (at most once): a dispatcher never receives more update calls than
\* samples have been published.
C3_UpdatesWithinPublished ==
    /\ mouse_updates <= published
    /\ gamepad_updates <= published

(***************************************************************************)
(* Properties of the update pass (SpecDispatch).                          *)
(***************************************************************************)
\* C4 as claimed (motion priority): in a cycle in which a scaled axis value
\* differs from the last-emitted one, no key event at all is written.
C4_NoKeyEventOnAxisChange ==
    /\ (MouseCycle /\ Scaled(mouse_data[1]) # mouse_pre[1].last_axis_values)
           => KeyWrites(mouse_writes) = << >>
    /\ (GamepadCycle /\ Scaled(gamepad_data[1]) # gamepad_pre[1].last_axis_values)
           => KeyWrites(gamepad_writes) = << >>

\* C4 as amended: in a cycle whose sample has a non-zero scaled axis value no
\* press is written, whatever the event value and whatever was held; what the
\* pointing-device profile held before the cycle is released and nothing is
\* held after it.
C4_NoPressWhileDisplaced ==
    /\ (MouseCycle /\ Scaled(mouse_data[1]) # ZeroAxes)
           => /\ Presses(mouse_writes) = << >>
              /\ Releases(mouse_writes) =
                     HeldHighLevelRelease(mouse_pre[1])
                     \o LowLevelKeyWrites(
                            LAMBDA b : BUTTON_BIT_MAP[b] \in mouse_pre[1].last_low_level_button_state,
                            0)
              /\ mouse_last_high_level_event_state = None
              /\ last_low_level_button_state = { }
    /\ (GamepadCycle /\ Scaled(gamepad_data[1]) # ZeroAxes)
           => Presses(gamepad_writes) = << >>

\* A displaced sample carrying a mapped high-level code arrives while two
\* low-level buttons are held: the buttons are released, nothing is pressed.
C4_Witness ==
    /\ MouseCycle
    /\ Scaled(mouse_data[1]) # ZeroAxes
    /\ mouse_data[1].event = 131081
    /\ mouse_pre[1].last_low_level_button_state = { "SC_KEY_1", "SC_KEY_2" }
    /\ Len(Releases(mouse_writes)) = 2

\* C5 (idempotence): a sample equal in its axes and its event to the sample of
\* the preceding cycle produces no axis write and no key write.
C5_Idempotent ==
    /\ (mouse_data # None /\ mouse_pre[1].data = mouse_data)
           => AbsWrites(mouse_writes) = << >> /\ KeyWrites(mouse_writes) = << >>
    /\ (gamepad_data # None /\ gamepad_pre[1].data = gamepad_data)
           => AbsWrites(gamepad_writes) = << >> /\ KeyWrites(gamepad_writes) = << >>

\* The same two-button sample twice: the second cycle writes only the sync.
C5_Witness ==
    /\ MouseCycle
    /\ mouse_pre[1].data = mouse_data
    /\ mouse_data[1] = MkSample(<< 0, 0, 0, 0, 0, 0 >>, 3)
    /\ last_low_level_button_state = { "SC_KEY_1", "SC_KEY_2" }
    /\ mouse_writes = << Syn >>

\* The button the gamepad table carries for each high-level code (the table
\* keys are "SC_" followed by the event name).
GamepadTableButton ==
    (131085 :> EVDEV_GAMEPAD_BUTTON_MAP["SC_DEV_WHEEL_LEFT"]) @@
    (131086 :> EVDEV_GAMEPAD_BUTTON_MAP["SC_DEV_WHEEL_RIGHT"]) @@
    (131087 :> EVDEV_GAMEPAD_BUTTON_MAP["SC_EVT_HNDL_SENS_DLG"]) @@
    (131088 :> EVDEV_GAMEPAD_BUTTON_MAP["SC_EVT_HNDL_THRESH_DLG"]) @@
    (131089 :> EVDEV_GAMEPAD_BUTTON_MAP["SC_EVT_HNDL_LCD_DLG"]) @@
    (131090 :> EVDEV_GAMEPAD_BUTTON_MAP["SC_EVT_HNDL_LEDS_DLG"]) @@
    (131091 :> EVDEV_GAMEPAD_BUTTON_MAP["SC_EVT_APPL_IN_FRGRND"]) @@
    (131092 :> EVDEV_GAMEPAD_BUTTON_MAP["SC_EVT_HNDL_KBD_DLG"]) @@
    (131093 :> EVDEV_GAMEPAD_BUTTON_MAP["SC_EVT_HNDL_WFL_DLG"]) @@
    (131097 :> EVDEV_GAMEPAD_BUTTON_MAP["SC_DEV_CTRL"])

\* The active high-level code went from A to B, both in `table`, A # B.
HighLevelChange(pre, post, table) ==
    /\ pre # None /\ post # None /\ pre # post
    /\ pre[1] \in DOMAIN table /\ post[1] \in DOMAIN table

\* The pointing-device half of C6.
C6_MouseReleaseBeforePress ==
    (MouseCycle /\ HighLevelChange(mouse_pre[1].last_high_level_event_state,
                                   mouse_last_high_level_event_state,
                                   HIGH_LEVEL_EVENT_MAP_FOR_UINPUT))
        => KeyWrites(mouse_writes) =
             << Write(ecodes.EV_KEY,
                      HIGH_LEVEL_EVENT_MAP_FOR_UINPUT[mouse_pre[1].last_high_level_event_state[1]], 0),
                Write(ecodes.EV_KEY,
                      HIGH_LEVEL_EVENT_MAP_FOR_UINPUT[mouse_last_high_level_event_state[1]], 1) >>

\* C6 (transition ordering): when the active high-level code goes from A to B,
\* both in the profile's table, the cycle's key writes are exactly the release
\* of A's button followed by the press of B's button -- in both profiles.
C6_ReleaseBeforePress ==
    /\ C6_MouseReleaseBeforePress
    /\ (GamepadCycle /\ HighLevelChange(gamepad_pre[1].last_high_level_event_state,
                                        gamepad_last_high_level_event_state,
                                        GamepadTableButton))
           => KeyWrites(gamepad_writes) =
                << Write(ecodes.EV_KEY,
                         GamepadTableButton[gamepad_pre[1].last_high_level_event_state[1]], 0),
                   Write(ecodes.EV_KEY,
                         GamepadTableButton[gamepad_last_high_level_event_state[1]], 1) >>

\* C7 (low-level edges): in a cycle without displacement (all six scaled values
\* zero) and with a bitmask event, the presses are exactly the mapped buttons
\* whose bit is set and that were not pressed, in table order, and the releases
\* exactly the pressed buttons whose bit is clear (after the release of a
\* high-level button that was active); bits {0,1} from idle press SC_KEY_1 then
\* SC_KEY_2, and clearing bit 1 next releases SC_KEY_2 alone.
C7_LowLevelEdges ==
    (/\ MouseCycle
     /\ Scaled(mouse_data[1]) = ZeroAxes
     /\ mouse_data[1].event > 0 /\ mouse_data[1].event < HIGH_LEVEL_EVENT_THRESHOLD)
        => LET ev  == mouse_data[1].event
               was == mouse_pre[1].last_low_level_button_state
           IN  /\ Presses(mouse_writes) =
                      LowLevelKeyWrites(
                          LAMBDA b : EventBit(ev, b) /\ BUTTON_BIT_MAP[b] \notin was, 1)
               /\ Releases(mouse_writes) =
                      HeldHighLevelRelease(mouse_pre[1])
                      \o LowLevelKeyWrites(
                             LAMBDA b : ~EventBit(ev, b) /\ BUTTON_BIT_MAP[b] \in was, 0)
               /\ last_low_level_button_state = MappedNamesOf(ev)
               /\ (ev = 3 /\ was = { } /\ mouse_pre[1].last_high_level_event_state = None)
                      => KeyWrites(mouse_writes) =
                             << Write(ecodes.EV_KEY, ecodes.BTN_MISC + 0, 1),
                                Write(ecodes.EV_KEY, ecodes.BTN_MISC + 1, 1) >>
               /\ (ev = 1 /\ was = { "SC_KEY_1", "SC_KEY_2" })
                      => KeyWrites(mouse_writes) =
                             << Write(ecodes.EV_KEY, ecodes.BTN_MISC + 1, 0) >>

\* Bits {0,1} held, then bit 1 cleared: one release, of SC_KEY_2.
C7_Witness ==
    /\ MouseCycle
    /\ mouse_pre[1].data = Some(MkSample(<< 0, 0, 0, 0, 0, 0 >>, 3))
    /\ mouse_data[1] = MkSample(<< 0, 0, 0, 0, 0, 0 >>, 1)
    /\ KeyWrites(mouse_writes) = << Write(ecodes.EV_KEY, ecodes.BTN_MISC + 1, 0) >>
    /\ last_low_level_button_state = { "SC_KEY_1" }

\* C8 as claimed (None classification): in a cycle whose event is 0 or -1 no
\* key event is written and what was held stays held, while the axis writes
\* of the cycle are made.
C8_NoneKeepsButtons ==
    (MouseCycle /\ mouse_data[1].event \in { 0, -1 })
        => /\ KeyWrites(mouse_writes) = << >>
           /\ mouse_last_high_level_event_state = mouse_pre[1].last_high_level_event_state
           /\ last_low_level_button_state = mouse_pre[1].last_low_level_button_state
           /\ AxisWritesExact(mouse_writes, mouse_pre[1].last_axis_values, mouse_data[1])

\* C8 as amended: in a cycle whose event is 0 or -1 no press is written; every
\* button and high-level code held before the cycle is released in it and
\* nothing is held after it; the axis writes of the cycle are made.
C8_NoneReleasesButtons ==
    /\ (MouseCycle /\ mouse_data[1].event \in { 0, -1 })
        => /\ Presses(mouse_writes) = << >>
           /\ Releases(mouse_writes) =
                  HeldHighLevelRelease(mouse_pre[1])
                  \o LowLevelKeyWrites(
                         LAMBDA b : BUTTON_BIT_MAP[b] \in mouse_pre[1].last_low_level_button_state,
                         0)
           /\ mouse_last_high_level_event_state = None
           /\ last_low_level_button_state = { }
           /\ AxisWritesExact(mouse_writes, mouse_pre[1].last_axis_values, mouse_data[1])
           /\ mouse_last_axis_values = Scaled(mouse_data[1])
    /\ (GamepadCycle /\ gamepad_data[1].event \in { 0, -1 })
        => /\ Presses(gamepad_writes) = << >>
           /\ gamepad_last_high_level_event_state = None

\* Event -1 with an axis displaced, while SC_KEY_1 was held: the button is
\* released and the axis is written.
C8_Witness ==
    /\ MouseCycle
    /\ mouse_data[1].event = -1
    /\ mouse_pre[1].last_low_level_button_state = { "SC_KEY_1" }
    /\ Releases(mouse_writes) = << Write(ecodes.EV_KEY, ecodes.BTN_MISC + 0, 0) >>
    /\ AbsWrites(mouse_writes) # << >>

\* The event value carries something to decode: a high-level code or a
\* bitmask with a mapped bit.
HasContent(ev) ==
    \/ ev >= HIGH_LEVEL_EVENT_THRESHOLD
    \/ ev > 0 /\ MappedNamesOf(ev) # { }

\* The event field was classified and acted on / was suppressed.
MouseDecoded ==
    LET ev == mouse_data[1].event
    IN  /\ mouse_last_high_level_event_state =
               (IF ev >= HIGH_LEVEL_EVENT_THRESHOLD THEN Some(ev) ELSE None)
        /\ last_low_level_button_state =
               (IF ev > 0 /\ ev < HIGH_LEVEL_EVENT_THRESHOLD THEN MappedNamesOf(ev) ELSE { })

MouseSuppressed ==
    /\ mouse_last_high_level_event_state = None
    /\ last_low_level_button_state = { }
    /\ Presses(mouse_writes) = << >>

\* C9 as claimed (motion rule): the event is suppressed exactly when a scaled
\* axis value changed from the last-emitted one; with the axes steady (even at
\* non-zero values) the event is classified and acted on.
C9_MotionIsAxisChange ==
    (MouseCycle /\ HasContent(mouse_data[1].event))
        => IF Scaled(mouse_data[1]) # mouse_pre[1].last_axis_values
           THEN MouseSuppressed
           ELSE MouseDecoded

\* C9 as amended: the event is suppressed exactly when one of the six scaled
\* axis values of the sample is non-zero, changed or not; with all six at
\* zero (even when they have just returned to zero) it is classified and
\* acted on.
C9_MotionIsDisplacement ==
    (MouseCycle /\ HasContent(mouse_data[1].event))
        => IF Scaled(mouse_data[1]) # ZeroAxes
           THEN MouseSuppressed
           ELSE MouseDecoded

\* Axes steady at a non-zero value, DEV_FRONT in the event: suppressed.
C9_Witness ==
    /\ MouseCycle
    /\ Scaled(mouse_data[1]) = mouse_pre[1].last_axis_values
    /\ Scaled(mouse_data[1]) # ZeroAxes
    /\ mouse_data[1].event = 131081
    /\ mouse_last_high_level_event_state = None
    /\ KeyWrites(mouse_writes) = << >>

\* C10 (axis translation): on every update with a device, an absolute-axis
\* write is made for exactly the axes whose scaled value (raw * 20) differs
\* from last_axis_values, carrying the scaled value, and last_axis_values
\* holds the six scaled values afterwards; raw (100,0,0,0,0,0) from the
\* all-zero state writes X = 2000 and nothing else.
C10_AxisTranslation ==
    /\ MouseCycle
         => /\ AxisWritesExact(mouse_writes, mouse_pre[1].last_axis_values, mouse_data[1])
            /\ mouse_last_axis_values = Scaled(mouse_data[1])
            /\ (/\ mouse_pre[1].last_axis_values = ZeroAxes
                /\ Scaled(mouse_data[1]) = Scaled(MkSample(<< 100, 0, 0, 0, 0, 0 >>, 0)))
                   => AbsWrites(mouse_writes) = << Write(ecodes.EV_ABS, ecodes.ABS_X, 2000) >>
    /\ GamepadCycle
         => /\ AxisWritesExact(gamepad_writes, gamepad_pre[1].last_axis_values, gamepad_data[1])
            /\ gamepad_last_axis_values = Scaled(gamepad_data[1])

\* The first update, with raw axes (100,0,0,0,0,0): one write, X = 2000.
C10_Witness ==
    /\ MouseCycle
    /\ mouse_pre[1].data = None
    /\ mouse_data[1] = MkSample(<< 100, 0, 0, 0, 0, 0 >>, 0)
    /\ AbsWrites(mouse_writes) = << Write(ecodes.EV_ABS, ecodes.ABS_X, 2000) >>
    /\ mouse_last_axis_values = Scaled(mouse_data[1])

\* The update call returned: it reached the sync, its last sink call.
MouseCompleted == Len(mouse_writes) > 0 /\ mouse_writes[Len(mouse_writes)] = Syn

GamepadCompleted ==
    /\ ~gamepad_raised
    /\ Len(gamepad_writes) > 0 /\ gamepad_writes[Len(gamepad_writes)] = Syn

\* C11 (profile independence): both profiles live and fed the same sample,
\* each completes its cycle with the key events of its own table only; a
\* no-motion DEV_FRONT (0x20009), mapped for the pointing device and absent
\* from the gamepad table, is pressed on the pointing device alone while the
\* gamepad writes no key event and still completes its cycle normally.
C11_ProfilesIndependent ==
    (/\ MouseCycle /\ GamepadCycle
     /\ mouse_data = gamepad_data
     /\ mouse_data[1].event = 131081
     /\ Scaled(mouse_data[1]) = ZeroAxes
     /\ mouse_pre[1].last_high_level_event_state = None
     /\ gamepad_pre[1].last_high_level_event_state = None)
        => /\ Presses(mouse_writes) =
                  << Write(ecodes.EV_KEY, HIGH_LEVEL_EVENT_MAP_FOR_UINPUT[131081], 1) >>
           /\ MouseCompleted
           /\ KeyWrites(gamepad_writes) = << >>
           /\ GamepadCompleted

(***************************************************************************)
(* Properties of the acquisition loop (Spec).                             *)
(***************************************************************************)
\* C12 (publish rule): an iteration goes on to set_data exactly when the
\* fetch status is 0, and otherwise returns to the top of the loop; the
\* mailbox slot changes, and the availability signal is raised, only inside
\* the set_data of an iteration whose status was 0, and the slot then holds
\* the sample that iteration fetched.
C12_PublishRule ==
    [][ /\ (acq_pc = "fetch" /\ acq_pc' # "fetch")
            => /\ (acq_fetched'.status = 0) <=> (acq_pc' = "set_data_lock")
               /\ (acq_fetched'.status # 0) => (acq_pc' = "while")
               /\ UNCHANGED << shared_data, new_data_event >>
        /\ (shared_data' # shared_data)
            => /\ acq_pc = "set_data_store" /\ acq_fetched.status = 0
               /\ shared_data' # None
               /\ Some(shared_data'[1].sample) = acq_fetched.data
        /\ (new_data_event' /\ ~new_data_event)
            => /\ acq_pc = "set_data_signal" /\ acq_fetched.status = 0
               /\ Some(shared_data[1].sample) = acq_fetched.data
      ]_vars

\* An error status after one publish and one take: the slot still holds S1
\* and the signal is still clear.
C12_Witness ==
    /\ acq_pc = "while"
    /\ acq_fetched.status = 4
    /\ published = 1
    /\ shared_data # None /\ shared_data[1].n = 1
    /\ ~new_data_event
    /\ main_pc = "wait"
    /\ mouse_updates = 1

\* The statuses the event-name table calls "no change".
NoChangeStatuses == { st \in DOMAIN EVENT_ID_TO_NAME : EVENT_ID_TO_NAME[st] = "NOTHING_CHANGED" }

\* C13 (error taxonomy): an iteration whose status is neither OK nor a
\* no-change sentinel -- communication error, status 1, which is also what
\* fetch_data returns when not connected, included -- logs an error and goes
\* back to the top of the loop; a no-change status logs no error.
C13_ErrorsLogged ==
    (acq_log # "none" /\ acq_pc = "while")
        => /\ (acq_fetched.status # 0 /\ acq_fetched.status \notin NoChangeStatuses)
                  => acq_log = "error"
           /\ (acq_fetched.status = 1) => acq_log = "error"
           /\ (acq_fetched.status \in NoChangeStatuses) => acq_log # "error"

(***************************************************************************)
(* Properties of shutdown (Spec).                                         *)
(***************************************************************************)
\* The acquisition loop can still call fetch: run() has not returned.
AcquirerCanFetch == acq_pc # "ended"

\* C14 (ordered shutdown): once the handler is past stop() the stop flag is
\* set; once it is past join() the acquisition loop has ended; a sink is
\* closed, and the driver link disconnected, only after that, so never while
\* the loop can still call fetch; and the link is disconnected only after
\* every live sink has been closed.
C14_OrderedShutdown ==
    /\ main_pc \in { "join", "mouse_close", "gamepad_close", "disconnect", "terminated" }
           => ~running
    /\ main_pc \in { "mouse_close", "gamepad_close", "disconnect", "terminated" }
           => ~AcquirerCanFetch
    /\ (mouse_closed \/ gamepad_closed \/ ~is_connected)
           => ~running /\ ~AcquirerCanFetch
    /\ ~is_connected
           => /\ (mouse_controller /\ mouse_uinput_device) => mouse_closed
              /\ (gamepad_controller /\ gamepad_uinput_device) => gamepad_closed
              /\ main_pc = "terminated"

\* A shutdown after a sample was dispatched, the acquirer stopped in the
\* middle of its loop: both sinks closed, the link disconnected.
C14_Witness ==
    /\ main_pc = "terminated"
    /\ published >= 1 /\ mouse_updates >= 1
    /\ mouse_closed /\ gamepad_closed
    /\ ~is_connected
    /\ acq_pc = "ended"

(***************************************************************************)
(* More properties of the update pass (SpecDispatch).                     *)
(***************************************************************************)
\* C15 (unknown high-level code): in a cycle of the pointing-device profile
\* with all scaled axes zero and an event >= 0x20000 that the high-level table
\* does not carry, no press is written; a mapped high-level button that was
\* active is released (first of the cycle's releases); and the tracked
\* high-level state is the new code, not the previous one.
C15_UnknownHighLevelCode ==
    (/\ MouseCycle
     /\ Scaled(mouse_data[1]) = ZeroAxes
     /\ mouse_data[1].event >= HIGH_LEVEL_EVENT_THRESHOLD
     /\ mouse_data[1].event \notin DOMAIN HIGH_LEVEL_EVENT_MAP_FOR_UINPUT)
        => LET prev == mouse_pre[1].last_high_level_event_state
           IN  /\ Presses(mouse_writes) = << >>
               /\ (prev # None /\ prev[1] \in DOMAIN HIGH_LEVEL_EVENT_MAP_FOR_UINPUT)
                      => /\ Releases(mouse_writes) # << >>
                         /\ Releases(mouse_writes)[1] =
                                Write(ecodes.EV_KEY, HIGH_LEVEL_EVENT_MAP_FOR_UINPUT[prev[1]], 0)
                         /\ mouse_last_high_level_event_state # prev
               /\ mouse_last_high_level_event_state = Some(mouse_data[1].event)

\* DEV_FRONT active, then the unmapped code 0x20000: DEV_FRONT's button is
\* released, nothing is pressed.
C15_Witness ==
    /\ MouseCycle
    /\ Scaled(mouse_data[1]) = ZeroAxes
    /\ mouse_data[1].event = 131072
    /\ 131072 \notin DOMAIN HIGH_LEVEL_EVENT_MAP_FOR_UINPUT
    /\ mouse_pre[1].last_high_level_event_state = Some(131081)
    /\ KeyWrites(mouse_writes) =
           << Write(ecodes.EV_KEY, HIGH_LEVEL_EVENT_MAP_FOR_UINPUT[131081], 0) >>
    /\ mouse_last_high_level_event_state = Some(131072)

\* The number of sync signals among the writes of a cycle.
SyncCount(w) == Len(SelectSeq(w, LAMBDA e : e = Syn))

\* C16 (sync batching): with a live sink every update call of either profile
\* runs to completion and issues exactly one sync, after all the axis and
\* key writes of the cycle.
C16_OneSyncPerCycle ==
    /\ MouseCycle
           => SyncCount(mouse_writes) = 1 /\ MouseCompleted
    /\ GamepadCycle
           => SyncCount(gamepad_writes) = 1 /\ GamepadCompleted

\* The pointing-device half of C16.
C16_MouseOneSync == MouseCycle => SyncCount(mouse_writes) = 1 /\ MouseCompleted

(***************************************************************************)
(* Properties of failures (Spec).                                         *)
(***************************************************************************)
\* C17 (sink loss isolation): a sink write that fails inside one profile's
\* update does not abort the dispatch loop: the loop is still at one of its
\* positions (or in an orderly shutdown), so the other profile keeps being
\* called for later samples.
C17_SinkLossKeepsLoop ==
    sink_lost # "none" => main_pc # "exit_1"

\* C18 (fatal sink initialization): the dispatch loop is entered only with
\* every enabled profile's sink initialized; a profile whose UInput creation
\* raised makes the process exit instead.
C18_InitFailureIsFatal ==
    main_pc \in LoopPositions
        => /\ mouse_controller => mouse_uinput_device
           /\ gamepad_controller => gamepad_uinput_device

(***************************************************************************)
(* Properties of the decoding (SpecDispatch).                             *)
(***************************************************************************)
\* The active high-level code became `ev`, a code of `table`, in a cycle
\* with all scaled axes zero.
BecomesActive(data, pre, table) ==
    /\ Scaled(data) = ZeroAxes
    /\ data.event \in DOMAIN table
    /\ pre.last_high_level_event_state # Some(data.event)

\* The pointing-device half of C19.
C19_MousePress ==
    (MouseCycle /\ BecomesActive(mouse_data[1], mouse_pre[1], HIGH_LEVEL_EVENT_MAP_FOR_UINPUT))
        => Presses(mouse_writes) =
               << Write(ecodes.EV_KEY, HIGH_LEVEL_EVENT_MAP_FOR_UINPUT[mouse_data[1].event], 1) >>

\* C19 (high-level press per table): when a code that has a button in the
\* profile's table becomes the active code in a no-motion cycle, exactly one
\* press, of that button, is written -- for every code of the pointing-device
\* table and for every code of the gamepad table.
C19_HighLevelPressPerTable ==
    /\ C19_MousePress
    /\ (GamepadCycle /\ BecomesActive(gamepad_data[1], gamepad_pre[1], GamepadTableButton))
           => Presses(gamepad_writes) =
                  << Write(ecodes.EV_KEY, GamepadTableButton[gamepad_data[1].event], 1) >>

\* C20 (mutually exclusive decoding): after every cycle of the pointing
\* device the cycle's current high-level event (kept as
\* last_high_level_event_state) and its desired low-level set (the names kept
\* as pressed) are never both non-empty: a high-level event is set only for
\* an event value >= 0x20000, and buttons are desired only for a value in
\* (0, 0x20000).
C20_ExclusiveDecoding ==
    MouseCycle
        => /\ ~(mouse_last_high_level_event_state # None /\ last_low_level_button_state # { })
           /\ mouse_last_high_level_event_state # None
                  => /\ mouse_data[1].event >= HIGH_LEVEL_EVENT_THRESHOLD
                     /\ last_low_level_button_state = { }
           /\ last_low_level_button_state # { }
                  => /\ mouse_data[1].event > 0
                     /\ mouse_data[1].event < HIGH_LEVEL_EVENT_THRESHOLD
                     /\ mouse_last_high_level_event_state = None

\* DEV_FRONT (0x20009, whose low bits 0 and 3 are set) arrives while
\* SC_KEY_1 is held: it is decoded as the high-level code only.
C20_Witness ==
    /\ MouseCycle
    /\ mouse_data[1].event = 131081
    /\ mouse_pre[1].last_low_level_button_state = { "SC_KEY_1" }
    /\ mouse_last_high_level_event_state = Some(131081)
    /\ last_low_level_button_state = { }

\* The event value with bits 15 and 16 cleared (for 0 < ev < 0x20000).
WithoutReservedBits(ev) == ev % 32768

\* C21 (reserved bits): in a no-motion cycle with a low-level event value the
\* desired pressed set and the key events are those of the value with bits 15
\* and 16 cleared, so setting or clearing either bit changes nothing; 0x8000
\* or 0x10000 alone, from idle, presses nothing.
C21_ReservedBits ==
    (/\ MouseCycle
     /\ Scaled(mouse_data[1]) = ZeroAxes
     /\ mouse_data[1].event > 0 /\ mouse_data[1].event < HIGH_LEVEL_EVENT_THRESHOLD)
        => LET ev   == mouse_data[1].event
               base == WithoutReservedBits(ev)
               was  == mouse_pre[1].last_low_level_button_state
           IN  /\ last_low_level_button_state =
                      { BUTTON_BIT_MAP[b] : b \in { b \in 0..14 : (base \div (2 ^ b)) % 2 = 1 } }
               /\ Presses(mouse_writes) =
                      LowLevelKeyWrites(
                          LAMBDA b : b <= 14 /\ (base \div (2 ^ b)) % 2 = 1
                                     /\ BUTTON_BIT_MAP[b] \notin was, 1)
               /\ Releases(mouse_writes) =
                      HeldHighLevelRelease(mouse_pre[1])
                      \o LowLevelKeyWrites(
                             LAMBDA b : ~(b <= 14 /\ (base \div (2 ^ b)) % 2 = 1)
                                        /\ BUTTON_BIT_MAP[b] \in was, 0)
               /\ (ev \in { 32768, 65536 } /\ was = { }
                   /\ mouse_pre[1].last_high_level_event_state = None)
                      => KeyWrites(mouse_writes) = << >>

\* SC_KEY_1 held by event 1, then event 0x8001 (bit 15 added): no key event,
\* SC_KEY_1 still the only button held.
C21_Witness ==
    /\ MouseCycle
    /\ mouse_pre[1].data = Some(MkSample(<< 0, 0, 0, 0, 0, 0 >>, 1))
    /\ mouse_data[1] = MkSample(<< 0, 0, 0, 0, 0, 0 >>, 32769)
    /\ mouse_writes = << Syn >>
    /\ last_low_level_button_state = { "SC_KEY_1" }

(***************************************************************************)
(* Properties of stopping (SpecStop).                                     *)
(***************************************************************************)
\* C22 (cooperative stop): the acquisition loop ends only from the top of an
\* iteration and only with the stop flag set, and from the top with the flag
\* set it does nothing but end; at most one fetch is begun after stop() (the
\* one in flight), whose sample may still be published; and after stop() the
\* loop does end.
C22_CooperativeStop ==
    /\ [](fetches_after_stop <= 1)
    /\ [][ /\ (acq_pc' = "ended" /\ acq_pc # "ended") => (acq_pc = "while" /\ ~running)
           /\ (acq_pc = "while" /\ ~running /\ acq_pc' # acq_pc) => acq_pc' = "ended"
           /\ (acq_pc \notin { "while", "ended" } /\ acq_pc' # acq_pc) => acq_pc' # "ended"
         ]_vars
    /\ (~running) ~> (acq_pc = "ended")

\* stop() was called with a fetch in flight; the fetch returned status OK and
\* its sample has just been stored, after the stop.
C22_Witness ==
    /\ ~running
    /\ fetches_after_stop = 1
    /\ acq_pc = "set_data_signal"
    /\ shared_data # None /\ shared_data[1].n = published
    /\ Some(shared_data[1].sample) = acq_fetched.data

(***************************************************************************)
(* Properties of the handoff (Spec).                                      *)
(***************************************************************************)
\* The positions at which each thread is inside `with self._lock`.
AcquirerInLock == acq_pc \in { "set_data_store", "set_data_signal", "set_data_unlock" }

MainInLock == main_pc \in { "get_data_copy", "get_data_clear", "get_data_unlock" }

\* C23 (non-blocking handoff): the lock is held exactly while a thread is
\* copying a sample in or out -- never at a fetch, at the event wait, at an
\* update (HID writes) or after the loop was left; so a thread waiting for the
\* lock waits only for the other thread's copy, the store of a publish waits
\* for no take, and the two threads are never both blocked on the mailbox.
C23_NonBlockingHandoff ==
    /\ (lock = "acquirer") <=> AcquirerInLock
    /\ (lock = "main") <=> MainInLock
    /\ (acq_pc = "set_data_lock" /\ lock # "free") => (lock = "main" /\ MainInLock)
    /\ (main_pc = "get_data_lock" /\ lock # "free") => (lock = "acquirer" /\ AcquirerInLock)
    /\ ~(acq_pc = "set_data_lock" /\ main_pc = "get_data_lock" /\ lock # "free")

\* The publish of S2 waits for the lock while the dispatch loop is copying
\* S1 out, which it does without waiting for anything.
C23_Witness ==
    /\ acq_pc = "set_data_lock"
    /\ published = 1
    /\ lock = "main"
    /\ main_pc = "get_data_copy"
    /\ shared_data # None

(***************************************************************************)
(* Properties of a loop that keeps taking (SpecTake).                     *)
(***************************************************************************)
\* get_data is about to return sample n or one published after it.
TakeReturnsAtLeast(n) ==
    /\ main_pc = "get_data_unlock"
    /\ new_data # None /\ new_data[1].n >= n

\* C24 (no lost final sample): whenever the n-th sample has been published,
\* a later take returns it or a sample published after it, whatever the
\* interleaving of set_data with the wait, lock, copy and clear of get_data.
C24_NoLostFinalSample ==
    \A n \in 1..MaxPublished : (published >= n) ~> TakeReturnsAtLeast(n)

\* The consumer's wait has returned on S1's signal and it is waiting for the
\* lock, while the publish of S2 is between its store and its signal.
C24_Witness ==
    /\ main_pc = "get_data_lock"
    /\ acq_pc = "set_data_signal"
    /\ published = 2
    /\ new_data_event
    /\ new_data = None

(***************************************************************************)
(* Properties of the sink of the pointing device (SpecDispatch).          *)
(***************************************************************************)
\* C25 (press/release alternation): over the whole sequence of samples, no
\* output code of the pointing device is ever pressed while down or released
\* while up, so the key events of each code alternate press, release, press,
\* ... from a first press -- also for a code that two high-level events share.
C25_Alternation ==
    /\ mouse_sink.alternates
    /\ MouseCycle
           => \A i \in 1..Len(KeyWrites(mouse_writes)) :
                \A j \in (i + 1)..Len(KeyWrites(mouse_writes)) :
                    (KeyWrites(mouse_writes)[i].code = KeyWrites(mouse_writes)[j].code)
                        => /\ KeyWrites(mouse_writes)[i].value = 0
                           /\ KeyWrites(mouse_writes)[j].value = 1
                           /\ j = i + 1

\* DEV_RIGHT active, then DEV_BACK, which has the same output code
\* (BTN_EXTRA = BTN_SIDE + 1): the code is released, then pressed again.
C25_Witness ==
    /\ MouseCycle
    /\ mouse_pre[1].last_high_level_event_state = Some(131082)
    /\ mouse_last_high_level_event_state = Some(131094)
    /\ HIGH_LEVEL_EVENT_MAP_FOR_UINPUT[131082] = HIGH_LEVEL_EVENT_MAP_FOR_UINPUT[131094]
    /\ KeyWrites(mouse_writes) =
           << Write(ecodes.EV_KEY, ecodes.BTN_EXTRA, 0), Write(ecodes.EV_KEY, ecodes.BTN_EXTRA, 1) >>
    /\ mouse_sink.alternates

\* The sink's axes are the tracked axis values.
SinkAxesAgree ==
    \A a \in Axes : mouse_sink.abs[evdev_abs_map[a]] = mouse_last_axis_values[a]

\* A high-level button's code is down iff the tracked code is mapped to it.
SinkHighLevelAgrees ==
    \A ev \in DOMAIN HIGH_LEVEL_EVENT_MAP_FOR_UINPUT :
        (HIGH_LEVEL_EVENT_MAP_FOR_UINPUT[ev] \in mouse_sink.keys)
            <=> /\ mouse_last_high_level_event_state # None
                /\ mouse_last_high_level_event_state[1] \in DOMAIN HIGH_LEVEL_EVENT_MAP_FOR_UINPUT
                /\ HIGH_LEVEL_EVENT_MAP_FOR_UINPUT[mouse_last_high_level_event_state[1]]
                       = HIGH_LEVEL_EVENT_MAP_FOR_UINPUT[ev]

\* A low-level button's code is down iff the tracker marks the button pressed.
SinkLowLevelAgrees(names) ==
    \A name \in names :
        (EVDEV_3DMOUSE_LOW_LEVEL_BUTTON_MAP[name] \in mouse_sink.keys)
            <=> (name \in last_low_level_button_state)

\* C26 (sink/tracker agreement): after every completed cycle the sink's axes
\* equal last_axis_values, each low-level button's code is down iff the
\* tracker marks it pressed, and each high-level button's code is down iff
\* the tracked high-level code is mapped to it.
C26_SinkTrackerAgreement ==
    MouseCycle
        => /\ SinkAxesAgree
           /\ SinkLowLevelAgrees(DOMAIN EVDEV_3DMOUSE_LOW_LEVEL_BUTTON_MAP)
           /\ SinkHighLevelAgrees

\* C26 without the low-level buttons of bits 17..31.
C26_AgreementOnLowerButtons ==
    MouseCycle
        => /\ SinkAxesAgree
           /\ SinkLowLevelAgrees({ BUTTON_BIT_MAP[b] : b \in 0..14 })
           /\ SinkHighLevelAgrees

\* C27 (held buttons drop on displacement): after a cycle whose sample has a
\* non-zero scaled axis value nothing is held, whatever the event value and
\* whether or not the axes changed in the cycle: the tracked high-level state
\* of either profile is none, every low-level button of the pointing device
\* is marked released, and no key is down at its sink.
C27_NothingHeldWhileDisplaced ==
    /\ (MouseCycle /\ Scaled(mouse_data[1]) # ZeroAxes)
           => /\ mouse_last_high_level_event_state = None
              /\ last_low_level_button_state = { }
              /\ mouse_sink.keys = { }
    /\ (GamepadCycle /\ Scaled(gamepad_data[1]) # ZeroAxes)
           => gamepad_last_high_level_event_state = None

\* A sample with button bits set whose axes were already displaced in the
\* cycle before and have not changed.
C27_Witness ==
    /\ MouseCycle
    /\ Scaled(mouse_data[1]) # ZeroAxes
    /\ Scaled(mouse_data[1]) = mouse_pre[1].last_axis_values
    /\ mouse_data[1].event = 3
    /\ AbsWrites(mouse_writes) = << >>
    /\ mouse_sink.keys = { }
    /\ last_low_level_button_state = { }

(***************************************************************************)
(* Properties of the axis values (SpecAxisRange).                         *)
(***************************************************************************)
\* C28 (axis range): every absolute-axis value written, raw * AXIS_SCALE for
\* a signed 16-bit raw reading, lies in the range declared to the sink,
\* [-32767, 32767].
C28_AxisValuesInRange ==
    /\ \A i \in 1..Len(AbsWrites(mouse_writes)) :
           /\ AbsWrites(mouse_writes)[i].value >= -32767
           /\ AbsWrites(mouse_writes)[i].value <= 32767
    /\ \A i \in 1..Len(AbsWrites(gamepad_writes)) :
           /\ AbsWrites(gamepad_writes)[i].value >= -32767
           /\ AbsWrites(gamepad_writes)[i].value <= 32767

(***************************************************************************)
(* Properties of the upper button bits (SpecDispatch).                    *)
(***************************************************************************)
\* The names BUTTON_BIT_MAP gives to bit positions 17..31 (the _B buttons).
UpperButtonNames == { BUTTON_BIT_MAP[b] : b \in { b \in DOMAIN BUTTON_BIT_MAP : b >= 17 } }

\* Some bit of positions 17..31 is set in a c_int value.
HasUpperBit(ev) == ev < 0 \/ ev >= HIGH_LEVEL_EVENT_THRESHOLD

\* The press the high-level path may write for ev, and the presses the
\* low-level path may write for ev: only codes of bits 0..14.
HighLevelPressOf(ev) ==
    IF ev >= HIGH_LEVEL_EVENT_THRESHOLD /\ ev \in DOMAIN HIGH_LEVEL_EVENT_MAP_FOR_UINPUT
    THEN { Write(ecodes.EV_KEY, HIGH_LEVEL_EVENT_MAP_FOR_UINPUT[ev], 1) }
    ELSE { }

LowerButtonPressesOf(ev) ==
    IF ev > 0 /\ ev < HIGH_LEVEL_EVENT_THRESHOLD
    THEN { Write(ecodes.EV_KEY, ecodes.BTN_MISC + b, 1) : b \in { b \in 0..14 : EventBit(ev, b) } }
    ELSE { }

\* C29 (unreachable upper buttons): no name of bit positions 17..31 is ever
\* marked pressed, every press of a cycle is either the press of the cycle's
\* high-level code or the press of a button of bits 0..14 of a value in
\* (0, 0x20000), and a value with a bit of 17..31 set leaves the low-level
\* set empty and, in a cycle without displacement, is kept as the high-level
\* code (as None when it is negative).
C29_UpperButtonsUnreachable ==
    MouseCycle
        => LET ev == mouse_data[1].event
           IN  /\ last_low_level_button_state \cap UpperButtonNames = { }
               /\ \A i \in 1..Len(Presses(mouse_writes)) :
                      Presses(mouse_writes)[i] \in HighLevelPressOf(ev) \cup LowerButtonPressesOf(ev)
               /\ HasUpperBit(ev)
                      => /\ last_low_level_button_state = { }
                         /\ Scaled(mouse_data[1]) = ZeroAxes
                                => mouse_last_high_level_event_state =
                                       (IF ev < 0 THEN None ELSE Some(ev))

\* DEV_FRONT (0x20009: bits 17, 3 and 0) arrives at rest while SC_KEY_1 is
\* held: the held button is released and the only press is DEV_FRONT's.
C29_Witness ==
    /\ MouseCycle
    /\ mouse_data[1].event = 131081
    /\ Scaled(mouse_data[1]) = ZeroAxes
    /\ mouse_pre[1].last_low_level_button_state = { "SC_KEY_1" }
    /\ Presses(mouse_writes) = << Write(ecodes.EV_KEY, HIGH_LEVEL_EVENT_MAP_FOR_UINPUT[131081], 1) >>
    /\ last_low_level_button_state = { }

\* A negative value (every bit set) at rest: nothing pressed, nothing tracked.
C29_NegativeWitness ==
    /\ MouseCycle
    /\ mouse_data[1].event = -1
    /\ Scaled(mouse_data[1]) = ZeroAxes
    /\ mouse_last_high_level_event_state = None
    /\ last_low_level_button_state = { }
    /\ Presses(mouse_writes) = << >>

(***************************************************************************)
(* High-level / low-level exclusion at the sink (SpecDispatch).           *)
(***************************************************************************)
HighLevelCodes ==
    { HIGH_LEVEL_EVENT_MAP_FOR_UINPUT[ev] : ev \in DOMAIN HIGH_LEVEL_EVENT_MAP_FOR_UINPUT }

LowLevelCodes ==
    { EVDEV_3DMOUSE_LOW_LEVEL_BUTTON_MAP[n] : n \in DOMAIN EVDEV_3DMOUSE_LOW_LEVEL_BUTTON_MAP }

\* The cycle wrote the press of a high-level code / of a low-level button.
ActivatesHighLevel == \E c \in HighLevelCodes :
    \E i \in 1..Len(mouse_writes) : mouse_writes[i] = Write(ecodes.EV_KEY, c, 1)

PressesLowLevel == LowerButtonPressesOf(mouse_data[1].event) # { }
    /\ \E i \in 1..Len(mouse_writes) : mouse_writes[i] \in LowerButtonPressesOf(mouse_data[1].event)

\* C30 (high-level / low-level exclusion in state): after every cycle of the
\* pointing device the sink never holds a high-level code and a different
\* low-level code down together, and the trackers are never both non-empty;
\* a cycle that writes the press of a mapped high-level code also writes the
\* release of every low-level button held before it, and a cycle that
\* presses low-level buttons also writes the release of the high-level
\* button held before it.
C30_ExclusionInState ==
    MouseCycle
        => LET pre == mouse_pre[1]
           IN  /\ \A h \in mouse_sink.keys \cap HighLevelCodes :
                      mouse_sink.keys \cap LowLevelCodes \subseteq { h }
               /\ ~(mouse_last_high_level_event_state # None /\ last_low_level_button_state # { })
               /\ ActivatesHighLevel
                      => /\ \A n \in pre.last_low_level_button_state :
                                \E i \in 1..Len(mouse_writes) : mouse_writes[i] =
                                    Write(ecodes.EV_KEY, EVDEV_3DMOUSE_LOW_LEVEL_BUTTON_MAP[n], 0)
                         /\ last_low_level_button_state = { }
                         /\ mouse_sink.keys \subseteq HighLevelCodes
               /\ PressesLowLevel
                      => /\ HeldHighLevelRelease(pre) # << >>
                                => \E i \in 1..Len(mouse_writes) :
                                       mouse_writes[i] = HeldHighLevelRelease(pre)[1]
                         /\ mouse_last_high_level_event_state = None
                         /\ mouse_sink.keys \cap HighLevelCodes \subseteq LowLevelCodes

\* SC_KEY_1 and SC_KEY_2 are held when DEV_FRONT arrives at rest: both are
\* released in the cycle that presses DEV_FRONT.
C30_Witness ==
    /\ MouseCycle
    /\ mouse_pre[1].last_low_level_button_state = { "SC_KEY_1", "SC_KEY_2" }
    /\ mouse_data[1].event = 131081
    /\ ActivatesHighLevel
    /\ mouse_sink.keys = { HIGH_LEVEL_EVENT_MAP_FOR_UINPUT[131081] }

\* DEV_FRONT is held when a low-level value arrives at rest: it is released
\* in the cycle that presses the low-level button.
C30_LowLevelWitness ==
    /\ MouseCycle
    /\ mouse_pre[1].last_high_level_event_state = Some(131081)
    /\ PressesLowLevel
    /\ mouse_sink.keys \cap HighLevelCodes = { }
    /\ mouse_sink.keys # { }

(***************************************************************************)
(* Release of resources at exit (SpecExit).                               *)
(***************************************************************************)
\* The main thread has left the script: sys.exit(0), sys.exit(1), or its end.
MainExited == main_pc \in { "exit_0", "exit_1", "terminated" }

\* The acquisition thread does not keep the process alive: a thread that
\* was started is not a daemon thread, and the interpreter waits for it.
AcquirerNotAlive == acq_pc \in { "not_started", "ended" }

\* C31 (resources released on every exit path): whenever the main program
\* has exited after scConnect2 succeeded, scDisconnect has been called, and
\* the acquisition thread, if it was started, has been stopped and has
\* ended.
C31_ReleasedOnExit ==
    (MainExited /\ sc_session # "none")
        => /\ sc_session = "closed"
           /\ AcquirerNotAlive
           /\ acq_pc = "ended" => ~running

\* The two paths that do release: no device (sys.exit(0)) and Ctrl+C.
C31_ReleasedOnCleanPaths ==
    (main_pc \in { "exit_0", "terminated" })
        => /\ sc_session = "closed"
           /\ ~is_connected
           /\ AcquirerNotAlive

\* scGetDevNum failed after scConnect2 succeeded: exit without scDisconnect.
C31_QueryFailureExit ==
    /\ main_pc = "exit_1"
    /\ acq_pc = "not_started"
    /\ sc_session = "open"
    /\ ~is_connected

\* An update raised inside the dispatch loop: exit with the session open
\* and the acquisition thread still running.
C31_LoopExceptionExit ==
    /\ main_pc = "exit_1"
    /\ gamepad_raised
    /\ sc_session = "open"
    /\ running
    /\ acq_pc # "ended"

====
